----------------------- MODULE AdmissionSafetyProofs -----------------------
(***************************************************************************)
(* What the calls of Admission keep to, for any number of goroutines,      *)
(* sessions and challenges.  A handler decides on a record it read under   *)
(* the session's lock and writes its decision later: the decision still    *)
(* fits what is stored when it is written, because nobody else could write *)
(* that record in between, and a record is written without its lock only   *)
(* under an id that no client has (Inv).  From there: the refinement of    *)
(* AdmissionFSM; rotation; the absolute lifetime; the waiting room; the    *)
(* capacity slots; the budget of guesses; the time a record is kept; and   *)
(* the bound on usable sessions, each with the conjuncts of its own about  *)
(* stored records and pending decisions.                                   *)
(***************************************************************************)
EXTENDS AdmissionProofs, FiniteSetTheorems

\* The critical section is entered by the holder of the lock alone.
LockHeld == \A p \in Proc : pc[p] \in Locked => lock[task[p].sid] = p

\* p is about to create, or to hand out, the session task[p].id.
Newborn(p) ==
  \/ pc[p] \in {"fresh", "reserved"} /\ task[p].op = "new"
  \/ pc[p] \in Locked /\ task[p].after = "move"

\* A session being created is known to its creator alone, and not yet stored
\* before its creator stores it.
Births ==
  \A p \in Proc : Newborn(p) =>
    /\ origin[task[p].id] # 0
    /\ task[p].id \notin known
    /\ pc[p] \in {"fresh", "reserved", "save"} => sess[task[p].id].state = "NEW"
    /\ \A q \in Proc : Newborn(q) /\ task[q].id = task[p].id => q = p

\* An id that was never generated is not in use.
Unborn == \A n \in SID : origin[n] = 0 => sess[n].state = "NEW" /\ n \notin known

\* Every other call is about a session that some client has.
Tenants ==
  \A p \in Proc : pc[p] \in Locked \/ (pc[p] = "fresh" /\ task[p].op # "new")
                    => task[p].sid \in known

Legal(a, b) == a = b \/ \E event \in Event : IsLegalTransition(a, event, b)

\* What a call has decided to write is a legal move from what is stored.
Plans ==
  \A p \in Proc :
    /\ pc[p] = "reserved" => Legal("NEW", task[p].rec.state)
    /\ pc[p] = "save" /\ task[p].after = "move" => Legal("NEW", task[p].rec.state)
    /\ (pc[p] = "save" \/ (pc[p] = "chal" /\ task[p].ttl > 0)) /\ task[p].after # "move"
         => Legal(sess[task[p].sid].state, task[p].rec.state)

Inv == TypeInv /\ LockHeld /\ Births /\ Unborn /\ Tenants /\ Plans

SameStates == \A s \in SID : sess'[s].state = sess[s].state

-----------------------------------------------------------------------------

\* A step of p that leaves locks, ids and recorded states alone.
LEMMA QuietStep ==
  ASSUME Inv, TypeInv', NEW p \in Proc, NEW stage \in Stage \ {"fresh", "reserved"}, NEW u,
         Become(p, stage, u), SameStates, UNCHANGED <<lock, origin, known>>,
         stage \in Locked => pc[p] \in Locked /\ u.sid = task[p].sid,
         stage \in Locked /\ u.after = "move" =>
           task[p].after = "move" /\ u.id = task[p].id /\ stage # "save",
         stage = "save" \/ (stage = "chal" /\ u.ttl > 0) =>
           Legal(sess[u.sid].state, u.rec.state)
  PROVE  Inv'
<1> USE DEF Inv, TypeInv
<1>0. /\ pc' = [pc EXCEPT ![p] = stage] /\ task' = [task EXCEPT ![p] = u]
      /\ pc \in [Proc -> Stage] /\ task \in [Proc -> Task]
  BY DEF Become, TypeOK
<1>1. \A q \in Proc \ {p} : pc'[q] = pc[q] /\ task'[q] = task[q]
  BY <1>0
<1>2. pc'[p] = stage /\ task'[p] = u
  BY <1>0
<1>3. \A q \in Proc : Newborn(q)' => Newborn(q) /\ task'[q].id = task[q].id
  BY <1>1, <1>2 DEF Newborn
<1>4. \A q \in Proc : Newborn(q) /\ ~Newborn(q)' => q = p
  BY <1>1 DEF Newborn
<1>a. \A q \in Proc : pc[q] # "idle" => task[q].id \in SID /\ task[q].sid \in SID
  BY DEF WellFormed
<1>b. \A q \in Proc : Newborn(q) => task[q].id \in SID
  BY <1>a DEF Newborn, Locked
<1>5. LockHeld'
  BY <1>1, <1>2 DEF LockHeld
<1>6. Births'
  <2> SUFFICES ASSUME NEW q \in Proc, Newborn(q)'
               PROVE  /\ origin'[task'[q].id] # 0 /\ task'[q].id \notin known'
                      /\ pc'[q] \in {"fresh", "reserved", "save"} =>
                           sess'[task'[q].id].state = "NEW"
                      /\ \A o \in Proc : Newborn(o)' /\ task'[o].id = task'[q].id => o = q
    BY DEF Births
  <2>1. Newborn(q) /\ task'[q].id = task[q].id
    BY <1>3
  <2>2. pc'[q] \in {"fresh", "reserved", "save"} => pc[q] = pc'[q]
    BY <1>1, <1>2, <2>1 DEF Newborn
  <2> QED BY <1>3, <1>b, <2>1, <2>2 DEF Births, SameStates
<1>7. Unborn'
  BY DEF Unborn, SameStates
<1>8. Tenants'
  BY <1>1, <1>2 DEF Tenants
<1>9. Plans'
  BY <1>1, <1>2, <1>a DEF Plans, SameStates, Locked
<1> QED BY <1>5, <1>6, <1>7, <1>8, <1>9

\* The state every decision leads to, and the legal move that it is.
LEMMA DecidedStates ==
  ASSUME NEW r \in Session, NEW t \in Nat
  PROVE  /\ r.state = "WAITING" => Legal(r.state, LeaveWaitRoom(r, t).state)
         /\ r.state = "CHALLENGE_REQUIRED" => Legal(r.state, Expelled(r, t).state)
         /\ r.state = "CHALLENGE_REQUIRED" => Legal(r.state, Solved(r, t).state)
         /\ r.state # "REVOKED" => Legal(r.state, Revoked(r).state)
         /\ Successor(r, t).state = "ADMITTED"
         /\ \A to : Transitioned(r, to, t).state = to
<1> USE DEF Legal, IsLegalTransition, Event
<1>1. r.state = "WAITING" => Legal(r.state, LeaveWaitRoom(r, t).state)
  <2>1. LeaveWaitRoom(r, t).state \in {"CHALLENGE_REQUIRED", "ADMITTED"}
    BY DEF LeaveWaitRoom, Session
  <2> QED BY <2>1
<1>2. r.state = "CHALLENGE_REQUIRED" => Legal(r.state, Expelled(r, t).state)
  <2>1. Expelled(r, t).state \in {r.state, "WAITING"}
    BY DEF Expelled, Session
  <2> QED BY <2>1
<1>3. r.state = "CHALLENGE_REQUIRED" => Legal(r.state, Solved(r, t).state)
  <2>1. Solved(r, t).state = "ADMITTED"
    BY DEF Solved, Session
  <2> QED BY <2>1
<1>4. r.state # "REVOKED" => Legal(r.state, Revoked(r).state)
  <2>1. Revoked(r).state = "REVOKED"
    BY DEF Revoked, Session
  <2> QED BY <2>1
<1>5. Successor(r, t).state = "ADMITTED" /\ \A to : Transitioned(r, to, t).state = to
  BY DEF Successor, Transitioned, Session
<1> QED BY <1>1, <1>2, <1>3, <1>4, <1>5

\* A decision about the session's own record keeps the invariant.
LEMMA Decided ==
  ASSUME Inv, TypeInv', NEW p \in Proc, pc[p] = "held", NEW stage \in {"chal", "save", "unlock"},
         NEW u, Become(p, stage, u), UNCHANGED <<sess, lock, origin, known>>,
         u.sid = task[p].sid, u.after # "move",
         stage = "unlock" \/ (stage = "chal" /\ u.ttl = 0) \/ Legal(sess[u.sid].state, u.rec.state)
  PROVE  Inv'
<1>1. SameStates /\ stage \in Stage \ {"fresh", "reserved"} /\ pc[p] \in Locked
  BY DEF SameStates, Stage, Locked
<1> QED BY <1>1, QuietStep

\* Processes other than the one that takes the step keep their place and locals.
LEMMA Others ==
  ASSUME TypeInv, NEW p \in Proc, NEW stage, NEW u, Become(p, stage, u)
  PROVE  /\ pc'[p] = stage /\ task'[p] = u
         /\ \A q \in Proc \ {p} : pc'[q] = pc[q] /\ task'[q] = task[q]
         /\ \A q \in Proc \ {p} : Newborn(q)' <=> Newborn(q)
         /\ \A q \in Proc : pc[q] # "idle" => task[q].id \in SID /\ task[q].sid \in SID
         /\ \A q \in Proc : Newborn(q) => task[q].id \in SID
<1>1. /\ pc' = [pc EXCEPT ![p] = stage] /\ task' = [task EXCEPT ![p] = u]
      /\ pc \in [Proc -> Stage] /\ task \in [Proc -> Task]
  BY DEF Become, TypeInv, TypeOK
<1>2. \A q \in Proc \ {p} : pc'[q] = pc[q] /\ task'[q] = task[q]
  BY <1>1
<1>3. \A q \in Proc : pc[q] # "idle" => task[q].id \in SID /\ task[q].sid \in SID
  BY DEF TypeInv, WellFormed
<1> QED BY <1>1, <1>2, <1>3 DEF Newborn, Locked

\* p begins to create session n, an id never generated before.
LEMMA Conceived ==
  ASSUME Inv, TypeInv', NEW p \in Proc, NEW n \in SID, origin[n] = 0, NEW v, v # 0,
         origin' = [origin EXCEPT ![n] = v], UNCHANGED <<sess, lock, known>>,
         NEW stage, NEW u, Become(p, stage, u), u.id = n,
         \/ stage = "fresh" /\ u.op = "new"
         \/ /\ stage = "save" /\ pc[p] = "held" /\ u.sid = task[p].sid
            /\ u.after = "move" /\ Legal("NEW", u.rec.state)
  PROVE  Inv'
<1> USE DEF Inv
<1>1. /\ pc'[p] = stage /\ task'[p] = u
      /\ \A q \in Proc \ {p} : pc'[q] = pc[q] /\ task'[q] = task[q]
      /\ \A q \in Proc \ {p} : Newborn(q)' <=> Newborn(q)
      /\ \A q \in Proc : pc[q] # "idle" => task[q].id \in SID /\ task[q].sid \in SID
      /\ \A q \in Proc : Newborn(q) => task[q].id \in SID
  BY Others
<1>2. origin'[n] = v /\ \A m \in SID \ {n} : origin'[m] = origin[m]
  BY DEF TypeInv, TypeOK
<1>3. LockHeld'
  BY <1>1 DEF LockHeld, Locked
<1>4. Births'
  <2>1. \A q \in Proc : Newborn(q) => task[q].id # n
    BY <1>1 DEF Births
  <2>2. sess[n].state = "NEW" /\ n \notin known
    BY DEF Unborn
  <2>3. ASSUME NEW q \in Proc, Newborn(q)', q # p
        PROVE  /\ origin'[task'[q].id] # 0 /\ task'[q].id \notin known'
               /\ pc'[q] \in {"fresh", "reserved", "save"} => sess'[task'[q].id].state = "NEW"
               /\ \A o \in Proc : Newborn(o)' /\ task'[o].id = task'[q].id => o = q
    BY <1>1, <1>2, <2>1, <2>3 DEF Births
  <2>4. /\ origin'[task'[p].id] # 0 /\ task'[p].id \notin known'
        /\ sess'[task'[p].id].state = "NEW"
        /\ \A o \in Proc : Newborn(o)' /\ task'[o].id = task'[p].id => o = p
    BY <1>1, <1>2, <2>1, <2>2
  <2> QED BY <2>3, <2>4 DEF Births
<1>5. Unborn'
  BY <1>2 DEF Unborn
<1>6. Tenants'
  BY <1>1 DEF Tenants, Locked
<1>7. Plans'
  BY <1>1 DEF Plans
<1> QED BY <1>3, <1>4, <1>5, <1>6, <1>7

\* A rotation begins a new session, of a lineage that is never empty; every other
\* decision is a legal move of the session's own record.
LEMMA DecideStep ==
  ASSUME Inv, TypeInv', NEW p \in Proc, Decide(p) PROVE Inv'
<1>0. TypeInv /\ now \in Nat
  BY DEF Inv, TypeInv, TypeOK
<1>1. CASE ReturnEarly(p)
  BY <1>0, <1>1, HeldTask, Decided DEF ReturnEarly, store, history
<1>2. ASSUME NEW stage, NEW u, Become(p, stage, u), Decision(p, stage, u) PROVE Inv'
  <2> DEFINE r == sess[u.sid]
  <2>1. /\ pc[p] = "held" /\ u.sid = task[p].sid /\ u.sid \in SID /\ r \in Session
        /\ UNCHANGED <<sess, lock, known>>
    BY <1>0, <1>2, HeldTask DEF Decision, store
  <2>2. CASE stage = "save" /\ Rotated(u)
    <3>1. origin[u.sid] # 0
      BY <2>1 DEF Inv, Tenants, Unborn, Locked
    <3>2. /\ u.id \in SID /\ origin[u.id] = 0 /\ origin' = [origin EXCEPT ![u.id] = origin[u.sid]]
          /\ u.after = "move" /\ u.rec = Successor(r, now)
      BY <2>2 DEF Rotated
    <3>3. Legal("NEW", u.rec.state)
      BY <1>0, <2>1, <3>2, DecidedStates DEF Legal, IsLegalTransition, Event
    <3> QED BY <1>2, <2>1, <2>2, <3>1, <3>2, <3>3, Conceived
  <2>3. CASE ~(stage = "save" /\ Rotated(u))
    <3>1. /\ UNCHANGED origin /\ stage \in {"chal", "save"}
          /\ Waited(u) \/ Revoking(u) \/ Moved(u) \/ Issued(u) \/ Answered(u)
      BY <1>2, <2>3 DEF Decision
    <3>2. u.after # "move"
      BY <3>1 DEF Waited, Revoking, Moved, Issued, Answered
    <3>3. (stage = "chal" /\ u.ttl = 0) \/ Legal(r.state, u.rec.state)
      <4>1. CASE Waited(u)
        BY <1>0, <2>1, <4>1, DecidedStates DEF Waited, StillOver, WaitOver
      <4>2. CASE Revoking(u)
        <5>1. u.rec = Revoked(r)
          BY <4>2 DEF Revoking
        <5>2. CASE r.state = "REVOKED"
          BY <2>1, <5>1, <5>2 DEF Legal, Revoked, Session
        <5>3. CASE r.state # "REVOKED"
          BY <1>0, <2>1, <5>1, <5>3, DecidedStates DEF Legal
        <5> QED BY <5>2, <5>3
      <4>3. CASE Moved(u)
        BY <1>0, <2>1, <4>3, DecidedStates DEF Moved, Legal
      <4>4. CASE Issued(u)
        BY <2>1, <4>4 DEF Issued, Legal, Session
      <4>5. CASE Answered(u)
        <5>1. CASE stage = "chal"
          BY <1>0, <2>1, <4>5, <5>1, DecidedStates DEF Answered, MayAnswer
        <5>2. CASE stage = "save"
          BY <1>2, <2>3, <4>5, <5>2 DEF Decision, Answered, Waited, Revoking, Moved
        <5> QED BY <3>1, <5>1, <5>2
      <4> QED BY <3>1, <4>1, <4>2, <4>3, <4>4, <4>5
    <3> QED BY <1>2, <2>1, <3>1, <3>2, <3>3, Decided
  <2> QED BY <2>2, <2>3
<1> QED BY <1>0, <1>1, <1>2, Decisions

\* p takes the lock of a session that some client has.
LEMMA AcquireStep ==
  ASSUME Inv, TypeInv', NEW p \in Proc, NEW s \in SID, NEW op, s \in known, lock[s] = Free,
         lock' = [lock EXCEPT ![s] = p], UNCHANGED <<now, store, history>>,
         Become(p, "held", [NoTask EXCEPT !.op = op, !.sid = s, !.id = s])
  PROVE  Inv'
<1> USE DEF Inv
<1> DEFINE u == [NoTask EXCEPT !.op = op, !.sid = s, !.id = s]
<1>0. u.sid = s /\ u.after = "none"
  BY DEF NoTask
<1> HIDE DEF u
<1>1. /\ pc'[p] = "held" /\ task'[p] = u
      /\ \A q \in Proc \ {p} : pc'[q] = pc[q] /\ task'[q] = task[q]
      /\ \A q \in Proc \ {p} : Newborn(q)' <=> Newborn(q)
      /\ \A q \in Proc : pc[q] # "idle" => task[q].id \in SID /\ task[q].sid \in SID
      /\ \A q \in Proc : Newborn(q) => task[q].id \in SID
  BY Others DEF u
<1>2. ~Newborn(p)'
  BY <1>0, <1>1 DEF Newborn, Locked
<1>3. LockHeld'
  <2> SUFFICES ASSUME NEW q \in Proc, pc'[q] \in Locked PROVE lock'[task'[q].sid] = q
    BY DEF LockHeld
  <2>1. lock'[s] = p /\ \A o \in SID \ {s} : lock'[o] = lock[o]
    BY DEF TypeInv, TypeOK
  <2>2. CASE q = p
    BY <1>0, <1>1, <2>1, <2>2
  <2>3. CASE q # p
    BY <1>1, <2>1, <2>3, ProcAssumption DEF LockHeld, Locked
  <2> QED BY <2>2, <2>3
<1>4. Births'
  BY <1>1, <1>2 DEF Births, store, history
<1>5. Unborn'
  BY DEF Unborn, store, history
<1>6. Tenants'
  BY <1>0, <1>1 DEF Tenants, history
<1>7. Plans'
  BY <1>1 DEF Plans, store
<1> QED BY <1>3, <1>4, <1>5, <1>6, <1>7

\* The evaluation of a request, up to the lock or to the first save.
LEMMA EntryStep ==
  ASSUME Inv, TypeInv', NEW p \in Proc, Entry(p), ~SaveNewClient(p) PROVE Inv'
<1>0. TypeInv
  BY DEF Inv
<1>1. ASSUME NEW s \in SID, Resolve(p, s) PROVE Inv'
  <2> DEFINE u == [NoTask EXCEPT !.sid = s, !.id = s, !.rec = sess[s]]
  <2>1. Become(p, "fresh", u) /\ s \in known /\ UNCHANGED <<sess, lock, known, origin>>
    BY <1>1 DEF Resolve, store, history
  <2>2. u.op = "none" /\ u.sid = s
    BY DEF NoTask
  <2> HIDE DEF u
  <2>3. /\ pc'[p] = "fresh" /\ task'[p] = u
        /\ \A q \in Proc \ {p} : pc'[q] = pc[q] /\ task'[q] = task[q]
        /\ \A q \in Proc \ {p} : Newborn(q)' <=> Newborn(q)
    BY <1>0, <2>1, Others
  <2>4. ~Newborn(p)'
    BY <2>2, <2>3 DEF Newborn, Locked
  <2>5. LockHeld'
    BY <2>1, <2>3 DEF Inv, LockHeld, Locked
  <2>6. Births' /\ Unborn'
    BY <2>1, <2>3, <2>4 DEF Inv, Births, Unborn
  <2>7. Tenants'
    BY <2>1, <2>2, <2>3 DEF Inv, Tenants
  <2>8. Plans'
    BY <2>1, <2>3 DEF Inv, Plans
  <2> QED BY <2>5, <2>6, <2>7, <2>8 DEF Inv
<1>2. ASSUME NEW s \in SID, ResolveNew(p, s) PROVE Inv'
  <2> DEFINE u == [NoTask EXCEPT !.op = "new", !.sid = s, !.id = s, !.rec = NewSession(now)]
  <2>1. Become(p, "fresh", u) /\ u.id = s /\ u.op = "new" /\ now # 0
    BY <1>0, <1>2 DEF ResolveNew, NoTask, TypeInv, TypeOK
  <2> HIDE DEF u
  <2> QED BY <1>2, <2>1, Conceived DEF ResolveNew, store
<1>3. ASSUME EvaluateOnly(p) \/ RefuseNewClient(p) PROVE Inv'
  <2>1. /\ Become(p, "idle", NoTask) /\ SameStates /\ UNCHANGED <<lock, origin, known>>
        /\ "idle" \in Stage \ {"fresh", "reserved"} /\ "idle" \notin Locked
    BY <1>3 DEF EvaluateOnly, RefuseNewClient, SameStates, store, history, Stage, Locked
  <2> QED BY <2>1, QuietStep
<1>4. ASSUME EvaluateWaiting(p) PROVE Inv'
  <2>1. task[p].sid \in SID /\ task[p].sid \in known
    BY <1>0, <1>4 DEF EvaluateWaiting, TypeInv, WellFormed, Inv, Tenants
  <2> QED BY <1>4, <2>1, AcquireStep DEF EvaluateWaiting
<1>5. ASSUME NEW op \in Ops, NEW s \in SID, Call(p, op, s) PROVE Inv'
  BY <1>5, AcquireStep DEF Call, MayEnter
<1>6. ASSUME HandleNewClient(p) PROVE Inv'
  <2> DEFINE t == task[p]
             r == Admit(t.rec, now)
             u == [t EXCEPT !.rec = r, !.ttl = r.expiresAt - now]
  <2>1. /\ pc[p] = "fresh" /\ t.op = "new" /\ Become(p, "reserved", u)
        /\ origin' = [origin EXCEPT ![t.id] = now] /\ UNCHANGED <<sess, lock, known>>
    BY <1>6 DEF HandleNewClient
  <2>2. t \in Task /\ t.rec \in Session /\ t.id \in SID /\ now \in Nat /\ now # 0
    BY <1>0, <2>1 DEF TypeInv, TypeOK, WellFormed, Task
  <2>3. Legal("NEW", r.state)
    BY <2>2, AdmitType DEF Legal, IsLegalTransition, Event
  <2> HIDE DEF r
  <2>4. u.id = t.id /\ u.op = "new" /\ u.rec = r
    BY <2>1, <2>2 DEF Task
  <2> HIDE DEF u
  <2>5. /\ pc'[p] = "reserved" /\ task'[p] = u
        /\ \A q \in Proc \ {p} : pc'[q] = pc[q] /\ task'[q] = task[q]
        /\ \A q \in Proc \ {p} : Newborn(q)' <=> Newborn(q)
        /\ \A q \in Proc : Newborn(q) => task[q].id \in SID
    BY <1>0, <2>1, Others
  <2>6. \A n \in SID : origin[n] # 0 => origin'[n] # 0
    BY <1>0, <2>1, <2>2 DEF TypeInv, TypeOK
  <2>7. Newborn(p) /\ Newborn(p)'
    BY <2>1, <2>4, <2>5 DEF Newborn
  <2>8. LockHeld'
    BY <2>1, <2>5 DEF Inv, LockHeld, Locked
  <2>9. Births'
    <3> SUFFICES ASSUME NEW q \in Proc, Newborn(q)'
                 PROVE  /\ origin'[task'[q].id] # 0 /\ task'[q].id \notin known'
                        /\ pc'[q] \in {"fresh", "reserved", "save"} =>
                             sess'[task'[q].id].state = "NEW"
                        /\ \A o \in Proc : Newborn(o)' /\ task'[o].id = task'[q].id => o = q
      BY DEF Births
    <3>1. \A o \in Proc : Newborn(o)' => Newborn(o) /\ task'[o].id = task[o].id
      BY <2>4, <2>5, <2>7
    <3> QED BY <2>1, <2>5, <2>6, <3>1 DEF Inv, Births
  <2>10. Unborn'
    BY <2>1, <2>6, <1>0 DEF Inv, Unborn, TypeInv, TypeOK
  <2>11. Tenants'
    BY <2>1, <2>5 DEF Inv, Tenants, Locked
  <2>12. Plans'
    BY <2>1, <2>3, <2>4, <2>5 DEF Inv, Plans
  <2> QED BY <2>8, <2>9, <2>10, <2>11, <2>12 DEF Inv
<1> QED
  BY <1>1, <1>2, <1>3, <1>4, <1>5, <1>6 DEF Entry

\* Nobody else creates, or has plans for, the record that p is about to write.
LEMMA WriteTarget ==
  ASSUME Inv, NEW p \in Proc, pc[p] \in {"reserved", "save"}
  PROVE  /\ task[p].id \in SID /\ origin[task[p].id] # 0
         /\ \A q \in Proc \ {p} :
              /\ Newborn(q) => task[q].id # task[p].id
              /\ pc[q] \in Locked => task[q].sid # task[p].id
              /\ pc[q] \in {"reserved", "chal", "save", "del", "resv"} => task[q].id # task[p].id
<1> USE DEF Inv
<1>0. /\ task[p].id \in SID /\ task[p].sid \in SID
      /\ pc[p] = "reserved" => task[p].op = "new"
      /\ pc[p] = "save" /\ task[p].after # "move" => task[p].id = task[p].sid
  BY DEF TypeInv, WellFormed
<1>a. \A q \in Proc : pc[q] \in {"reserved", "chal", "save", "del", "resv"} =>
        Newborn(q) \/ (task[q].id = task[q].sid /\ pc[q] \in Locked)
  BY DEF TypeInv, WellFormed, Newborn, Locked
<1>1. CASE Newborn(p)
  BY <1>0, <1>a, <1>1 DEF Births, Tenants, Locked
<1>2. CASE ~Newborn(p)
  <2>1. /\ pc[p] = "save" /\ task[p].id = task[p].sid
        /\ task[p].sid \in known /\ lock[task[p].sid] = p
    BY <1>0, <1>2 DEF Newborn, Tenants, LockHeld, Locked
  <2> QED BY <1>0, <1>a, <2>1 DEF Births, Unborn, LockHeld, Locked
<1> QED BY <1>1, <1>2

\* A write to the record of p, its end, or both.
LEMMA WriteStep ==
  ASSUME Inv, TypeInv', NEW p \in Proc, pc[p] # "idle",
         \A s \in SID \ {task[p].id} : sess'[s].state = sess[s].state,
         pc[p] \in {"reserved", "save"} \/ SameStates,
         UNCHANGED origin,
         \A q \in Proc \ {p} : pc[q] \in Locked => lock'[task[q].sid] = q,
         NEW stage \in {"idle", "del", "resv", "unlock"}, NEW u, Become(p, stage, u),
         \/ known' = known
         \/ known' = known \cup {task[p].id} /\ Newborn(p) /\ stage = "idle",
         stage # "idle" => /\ pc[p] \in Locked /\ u.sid = task[p].sid /\ lock'[u.sid] = p
                           /\ u.after = "move" => task[p].after = "move" /\ u.id = task[p].id
  PROVE  Inv'
<1> USE DEF Inv
<1> DEFINE w == task[p].id
<1>1. /\ pc'[p] = stage /\ task'[p] = u
      /\ \A q \in Proc \ {p} : pc'[q] = pc[q] /\ task'[q] = task[q]
      /\ \A q \in Proc \ {p} : Newborn(q)' <=> Newborn(q)
      /\ \A q \in Proc : pc[q] # "idle" => task[q].id \in SID /\ task[q].sid \in SID
      /\ \A q \in Proc : Newborn(q) => task[q].id \in SID
  BY Others
<1>2. \A q \in Proc : Newborn(q)' => Newborn(q) /\ task'[q].id = task[q].id
  BY <1>1 DEF Newborn, Locked
<1>3. /\ \A q \in Proc \ {p} : Newborn(q) => sess'[task[q].id].state = sess[task[q].id].state
      /\ \A q \in Proc \ {p} : pc[q] \in {"chal", "save"} =>
           sess'[task[q].sid].state = sess[task[q].sid].state
      /\ \A n \in SID : origin[n] = 0 => sess'[n].state = sess[n].state
  BY <1>1, WriteTarget DEF SameStates, Locked
<1>4. \A q \in Proc \ {p} : Newborn(q) => task[q].id \notin known'
  BY <1>1 DEF Births
<1>5. LockHeld'
  BY <1>1 DEF LockHeld, Locked
<1>6. Births'
  <2> SUFFICES ASSUME NEW q \in Proc, Newborn(q)'
               PROVE  /\ origin'[task'[q].id] # 0 /\ task'[q].id \notin known'
                      /\ pc'[q] \in {"fresh", "reserved", "save"} =>
                           sess'[task'[q].id].state = "NEW"
                      /\ \A o \in Proc : Newborn(o)' /\ task'[o].id = task'[q].id => o = q
    BY DEF Births
  <2>1. CASE q = p
    <3>1. stage # "idle" /\ known' = known
      BY <1>1, <2>1 DEF Newborn, Locked
    <3> QED BY <1>1, <1>2, <2>1, <3>1 DEF Births
  <2>2. CASE q # p
    BY <1>1, <1>2, <1>3, <1>4, <2>2 DEF Births
  <2> QED BY <2>1, <2>2
<1>7. Unborn'
  <2>1. Newborn(p) => origin[w] # 0
    BY DEF Births
  <2> QED BY <1>3, <2>1 DEF Unborn
<1>8. Tenants'
  BY <1>1 DEF Tenants, Locked
<1>9. Plans'
  BY <1>1, <1>3 DEF Plans
<1> QED BY <1>5, <1>6, <1>7, <1>8, <1>9

\* A step of the store or the clock.
LEMMA BackgroundStep ==
  ASSUME Inv, TypeInv', UNCHANGED <<pc, task, origin, known>>, SameStates,
         \A s \in SID : lock[s] \in Proc => lock'[s] = lock[s]
  PROVE  Inv'
<1> USE DEF Inv
<1>0. /\ \A q \in Proc : pc[q] # "idle" => task[q].id \in SID /\ task[q].sid \in SID
      /\ \A q \in Proc : Newborn(q)' <=> Newborn(q)
  BY DEF TypeInv, WellFormed, Newborn
<1>1. \A q \in Proc : Newborn(q) => task[q].id \in SID
  BY <1>0 DEF Newborn, Locked
<1>2. LockHeld'
  BY <1>0 DEF LockHeld, Locked
<1>3. Births'
  BY <1>0, <1>1 DEF Births, SameStates
<1>4. Unborn' /\ Tenants'
  BY DEF Unborn, Tenants, SameStates
<1>5. Plans'
  BY <1>0 DEF Plans, SameStates
<1> QED BY <1>2, <1>3, <1>4, <1>5

\* Where a call goes after a write, and with which locals.
LEMMA GotoFields ==
  ASSUME TypeInv, NEW p \in Proc, NEW stage, Goto(p, stage) \/ (Abandon(p) /\ stage = "unlock")
  PROVE  \E u : /\ Become(p, stage, u) /\ u.sid = task[p].sid
                /\ u.after = "move" => task[p].after = "move" /\ u.id = task[p].id
                /\ stage # "unlock" => u = task[p]
<1>1. task[p] \in Task
  BY DEF TypeInv, TypeOK
<1>2. CASE Goto(p, stage) /\ stage = "unlock"
  BY <1>1, <1>2, DoneFields DEF Goto
<1>3. CASE Goto(p, stage) /\ stage # "unlock"
  BY <1>3 DEF Goto
<1>4. CASE Abandon(p) /\ stage = "unlock"
  BY <1>1, <1>4, DoneFields DEF Abandon
<1> QED BY <1>2, <1>3, <1>4

\* Steps that only read, delete or let lapse leave every recorded state as it was.
LEMMA QuietStates ==
  ASSUME TypeOK, NEW f,
         sess' = f, \A s \in SID : f[s] = sess[s] \/ f[s] = GoneSession(s)
  PROVE  SameStates
  BY StoreTypes DEF SameStates

\* A step that writes the record of p changes no other recorded state.
LEMMA StoredStates ==
  ASSUME TypeInv, NEW p \in Proc, pc[p] \in {"reserved", "save"},
         sess' = [sess EXCEPT ![task[p].id] = Stored(task[p].rec, task[p].ttl)]
  PROVE  /\ \A s \in SID \ {task[p].id} : sess'[s].state = sess[s].state
         /\ sess'[task[p].id].state = task[p].rec.state
<1>1. task[p].id \in SID /\ task[p].rec \in Session /\ task[p].ttl \in Nat /\ now \in Nat
  BY DEF TypeInv, TypeOK, WellFormed, Task
<1>2. Stored(task[p].rec, task[p].ttl).state = task[p].rec.state
  BY <1>1, StoredType
<1> QED BY <1>1, <1>2 DEF TypeInv, TypeOK

\* The return of a call keeps the invariant, whatever becomes of its lock.
LEMMA ReturnKeepsInv ==
  ASSUME Inv, TypeInv', NEW p \in Proc, Return(p), NEW v,
         lock' = [lock EXCEPT ![task[p].sid] = IF @ = p THEN v ELSE @]
  PROVE  Inv'
<1>0. TypeInv /\ TypeOK
  BY DEF Inv, TypeInv
<1>1. /\ pc[p] = "unlock" /\ Become(p, "idle", NoTask) /\ UNCHANGED <<sess, origin>>
  BY DEF Return, store
<1>2. known' = known \/ (known' = known \cup {task[p].id} /\ Newborn(p))
  BY DEF Return, Newborn, Locked
<1>3. SameStates /\ \A s \in SID \ {task[p].id} : sess'[s].state = sess[s].state
  BY <1>1 DEF SameStates
<1>4. ASSUME NEW q \in Proc \ {p}, pc[q] \in Locked PROVE lock'[task[q].sid] = q
  <2>1. task[p].sid \in SID /\ task[q].sid \in SID /\ lock[task[q].sid] = q
    BY <1>0, <1>1, <1>4 DEF TypeInv, WellFormed, Inv, LockHeld, Locked
  <2> QED BY <1>0, <2>1 DEF TypeOK
<1> QED BY <1>1, <1>2, <1>3, <1>4, WriteStep

\* The writes of a call keep the invariant.
LEMMA WritesKeepInv ==
  ASSUME Inv, TypeInv', NEW p \in Proc, Write(p) PROVE Inv'
<1> DEFINE t == task[p]
<1>0. TypeInv /\ TypeOK /\ LockHeld
  BY DEF Inv, TypeInv
<1>a. \A q \in Proc : pc[q] \in Locked => lock[task[q].sid] = q
  BY <1>0 DEF LockHeld
<1>1. ASSUME WriteChallenge(p) PROVE Inv'
  <2>1. PICK u : /\ Become(p, AfterChallenge(t), u) /\ u.sid = t.sid
                 /\ u.after = "move" => t.after = "move" /\ u.id = t.id
                 /\ AfterChallenge(t) # "unlock" => u = t
    BY <1>0, <1>1, GotoFields DEF WriteChallenge
  <2>2. /\ SameStates /\ UNCHANGED <<lock, origin, known>> /\ pc[p] = "chal" /\ pc[p] \in Locked
        /\ AfterChallenge(t) \in Stage \ {"fresh", "reserved"}
        /\ t.after # "move" /\ AfterChallenge(t) # "chal"
        /\ AfterChallenge(t) = "save" => t.ttl > 0 /\ u = t
    BY <1>0, <1>1, <2>1
    DEF WriteChallenge, SameStates, AfterChallenge, Stage, Locked, TypeInv, WellFormed
  <2>3. AfterChallenge(t) = "save" => Legal(sess[u.sid].state, u.rec.state)
    BY <2>2 DEF Inv, Plans
  <2> QED BY <2>1, <2>2, <2>3, QuietStep
<1>2. ASSUME SaveSession(p) PROVE Inv'
  <2> DEFINE next == CASE t.after = "none" -> "unlock" [] t.after = "move" -> "del" [] OTHER -> "resv"
  <2>1. next \in {"unlock", "del", "resv"}
    OBVIOUS
  <2>2. Goto(p, next) /\ pc[p] = "save" /\ pc[p] \in Locked /\ UNCHANGED <<lock, origin, known>>
    BY <1>2 DEF SaveSession, Locked
  <2> HIDE DEF next
  <2>3. PICK u : /\ Become(p, next, u) /\ u.sid = t.sid
                 /\ u.after = "move" => t.after = "move" /\ u.id = t.id
    BY <1>0, <2>2, GotoFields
  <2>4. \A s \in SID \ {t.id} : sess'[s].state = sess[s].state
    BY <1>0, <1>2, StoredStates DEF SaveSession
  <2> QED BY <1>a, <2>1, <2>2, <2>3, <2>4, WriteStep
<1>3. ASSUME DeleteOld(p) \/ SettleReservation(p) PROVE Inv'
  <2>1. SameStates
    BY <1>0, <1>3, QuietStates DEF DeleteOld, SettleReservation, SameStates, TypeOK
  <2>2. PICK stage \in {"resv", "unlock"} : Goto(p, stage)
    BY <1>3 DEF DeleteOld, SettleReservation
  <2>3. pc[p] # "idle" /\ pc[p] \in Locked /\ UNCHANGED <<lock, origin, known>>
    BY <1>3 DEF DeleteOld, SettleReservation, Locked, history
  <2>4. PICK u : /\ Become(p, stage, u) /\ u.sid = t.sid
                 /\ u.after = "move" => t.after = "move" /\ u.id = t.id
    BY <1>0, <2>2, GotoFields
  <2>5. \A s \in SID \ {t.id} : sess'[s].state = sess[s].state
    BY <2>1 DEF SameStates
  <2> QED BY <1>a, <2>1, <2>2, <2>3, <2>4, <2>5, WriteStep
<1>4. ASSUME Unlock(p) PROVE Inv'
  BY <1>4, ReturnKeepsInv DEF Unlock
<1> QED BY <1>1, <1>2, <1>3, <1>4 DEF Write

\* A failed call that may have written its record keeps the invariant.
LEMMA FailuresKeepInv ==
  ASSUME Inv, TypeInv', NEW p \in Proc, Fail(p) PROVE Inv'
<1> DEFINE t == task[p]
<1>0. TypeInv /\ TypeOK /\ LockHeld
  BY DEF Inv, TypeInv
<1>a. \A q \in Proc : pc[q] \in Locked => lock[task[q].sid] = q
  BY <1>0 DEF LockHeld
<1>b. ASSUME sess' = [sess EXCEPT ![t.id] = Stored(t.rec, t.ttl)] \/ UNCHANGED sess,
             pc[p] \in {"reserved", "save"}
      PROVE  \A s \in SID \ {t.id} : sess'[s].state = sess[s].state
  BY <1>0, <1>b, StoredStates
<1>1. ASSUME ChallengeWriteFails(p) PROVE Inv'
  <2>1. PICK stage \in {"save", "unlock"} :
          /\ Goto(p, stage) \/ (Abandon(p) /\ stage = "unlock")
          /\ stage = "save" => t.ttl > 0
    BY <1>1 DEF ChallengeWriteFails, AfterChallenge
  <2>2. PICK u : /\ Become(p, stage, u) /\ u.sid = t.sid
                 /\ u.after = "move" => t.after = "move" /\ u.id = t.id
                 /\ stage # "unlock" => u = t
    BY <1>0, <2>1, GotoFields
  <2>3. /\ SameStates /\ UNCHANGED <<lock, origin, known>> /\ pc[p] = "chal" /\ pc[p] \in Locked
        /\ stage \in Stage \ {"fresh", "reserved"} /\ t.after # "move" /\ stage # "chal"
    BY <1>0, <1>1, <2>1
    DEF ChallengeWriteFails, SameStates, Stage, Locked, TypeInv, WellFormed, history
  <2>4. stage = "save" => Legal(sess[u.sid].state, u.rec.state)
    BY <2>1, <2>2, <2>3 DEF Inv, Plans
  <2> QED BY <2>2, <2>3, <2>4, QuietStep
<1>2. ASSUME SaveFails(p) PROVE Inv'
  <2>1. /\ Abandon(p) /\ pc[p] = "save" /\ pc[p] \in Locked /\ UNCHANGED <<lock, origin, known>>
        /\ \A s \in SID \ {t.id} : sess'[s].state = sess[s].state
    BY <1>2, <1>b DEF SaveFails, Locked, history
  <2>2. PICK u : /\ Become(p, "unlock", u) /\ u.sid = t.sid
                 /\ u.after = "move" => t.after = "move" /\ u.id = t.id
    BY <1>0, <2>1, GotoFields
  <2> QED BY <1>a, <2>1, <2>2, WriteStep
<1>3. ASSUME DeleteFails(p) \/ ReservationFails(p) PROVE Inv'
  <2>1. SameStates
    <3>1. t.sid \in SID /\ t.id \in SID
      BY <1>0, <1>3 DEF DeleteFails, ReservationFails, TypeInv, WellFormed
    <3> QED
      BY <1>0, <1>3, <3>1, QuietStates DEF DeleteFails, ReservationFails, SameStates, TypeOK, store
  <2>2. /\ pc[p] # "idle" /\ pc[p] \in Locked /\ UNCHANGED <<lock, origin, known>>
        /\ Goto(p, "unlock") \/ Abandon(p)
    BY <1>3 DEF DeleteFails, ReservationFails, Locked, history
  <2>3. PICK u : /\ Become(p, "unlock", u) /\ u.sid = t.sid
                 /\ u.after = "move" => t.after = "move" /\ u.id = t.id
    BY <1>0, <2>2, GotoFields
  <2>4. \A s \in SID \ {t.id} : sess'[s].state = sess[s].state
    BY <2>1 DEF SameStates
  <2> QED BY <1>a, <2>1, <2>2, <2>3, <2>4, WriteStep
<1>4. ASSUME SaveNewClientFails(p) PROVE Inv'
  <2>1. /\ pc[p] = "reserved" /\ Become(p, "idle", NoTask) /\ UNCHANGED <<lock, origin, known>>
        /\ \A s \in SID \ {t.id} : sess'[s].state = sess[s].state
    BY <1>4, <1>b DEF SaveNewClientFails, history
  <2> QED BY <1>a, <2>1, WriteStep
<1>5. ASSUME UnlockFails(p) PROVE Inv'
  BY <1>5, ReturnKeepsInv DEF UnlockFails
<1>6. ASSUME Crash(p) PROVE Inv'
  <2>1. /\ pc[p] # "idle" /\ Become(p, "idle", NoTask) /\ UNCHANGED <<sess, origin, known>>
        /\ lock' = [s \in SID |-> IF lock[s] = p THEN Orphan ELSE lock[s]]
    BY <1>6 DEF Crash, store, history
  <2>2. \A q \in Proc : pc[q] \in Locked => task[q].sid \in SID
    BY <1>0 DEF TypeInv, WellFormed, Locked
  <2>3. \A q \in Proc \ {p} : pc[q] \in Locked => lock'[task[q].sid] = q
    BY <1>a, <2>1, <2>2
  <2>4. SameStates /\ \A s \in SID \ {t.id} : sess'[s].state = sess[s].state
    BY <2>1 DEF SameStates
  <2> QED BY <2>1, <2>3, <2>4, WriteStep
<1>7. ASSUME ReserveFails(p) PROVE Inv'
  <2>1. /\ Become(p, "idle", NoTask) /\ SameStates /\ UNCHANGED <<lock, origin, known>>
        /\ "idle" \in Stage \ {"fresh", "reserved"} /\ "idle" \notin Locked
    BY <1>7 DEF ReserveFails, SameStates, history, Stage, Locked
  <2> QED BY <2>1, QuietStep
<1> QED BY <1>1, <1>2, <1>3, <1>4, <1>5, <1>6, <1>7 DEF Fail

\* The store and the clock keep the invariant.
LEMMA BackgroundKeepsInv ==
  ASSUME Inv, TypeInv',
         (\E s \in SID : AcquireFails(s) \/ OrphanExpires(s)) \/ Tick \/ Janitor
  PROVE  Inv' /\ SameStates
<1>0. TypeOK
  BY DEF Inv, TypeInv
<1>1. ASSUME NEW s \in SID, AcquireFails(s) \/ OrphanExpires(s)
      PROVE  Inv' /\ SameStates
  <2>1. UNCHANGED <<pc, task, origin, known>> /\ SameStates
    BY <1>1 DEF AcquireFails, OrphanExpires, SameStates, store, history
  <2>2. \A o \in SID : lock[o] \in Proc => lock'[o] = lock[o]
    BY <1>0, <1>1, ProcAssumption DEF AcquireFails, OrphanExpires, TypeOK
  <2> QED BY <2>1, <2>2, BackgroundStep
<1>2. ASSUME Tick PROVE Inv' /\ SameStates
  <2>1. UNCHANGED <<lock, pc, task, origin, known>> /\ SameStates
    BY <1>0, <1>2, QuietStates DEF Tick, history
  <2> QED BY <2>1, BackgroundStep
<1>3. ASSUME Janitor PROVE Inv' /\ SameStates
  <2>1. UNCHANGED <<lock, pc, task, origin, known>> /\ SameStates
    BY <1>3 DEF Janitor, SameStates, history
  <2> QED BY <2>1, BackgroundStep
<1> QED BY <1>1, <1>2, <1>3

\* The first save of a new client keeps the invariant.
LEMMA FirstSaveKeepsInv ==
  ASSUME Inv, TypeInv', NEW p \in Proc, SaveNewClient(p) PROVE Inv'
<1>0. TypeInv /\ LockHeld
  BY DEF Inv
<1>1. /\ pc[p] = "reserved" /\ Become(p, "idle", NoTask) /\ UNCHANGED <<lock, origin>>
      /\ known' = known \cup {task[p].id}
      /\ \A s \in SID \ {task[p].id} : sess'[s].state = sess[s].state
  BY <1>0, StoredStates DEF SaveNewClient
<1>2. Newborn(p)
  BY <1>0, <1>1 DEF Newborn, TypeInv, WellFormed
<1>3. \A q \in Proc : pc[q] \in Locked => lock'[task[q].sid] = q
  BY <1>0, <1>1 DEF LockHeld
<1> QED BY <1>1, <1>2, <1>3, WriteStep

\* The invariant holds initially.
LEMMA InitInv == Init => Inv
<1> SUFFICES ASSUME Init PROVE Inv
  OBVIOUS
<1>1. TypeInv
  BY InitTypes
<1>2. /\ \A p \in Proc : pc[p] = "idle" /\ ~Newborn(p)
      /\ \A s \in SID : sess[s].state = "NEW"
      /\ known = {}
  BY DEF Init, NoSession, Newborn, Locked
<1> QED BY <1>1, <1>2 DEF Inv, LockHeld, Births, Unborn, Tenants, Plans, Locked

\* Every step of Spec keeps it.
LEMMA NextInv == Inv /\ [Next]_vars => Inv'
<1> SUFFICES ASSUME Inv, [Next]_vars PROVE Inv'
  OBVIOUS
<1>0. TypeInv /\ TypeInv'
  BY NextTypes DEF Inv
<1>1. ASSUME UNCHANGED vars PROVE Inv'
  <2>1. UNCHANGED <<pc, task, origin, known, lock>> /\ SameStates
    BY <1>1 DEF vars, store, history, SameStates
  <2> QED BY <1>0, <2>1, BackgroundStep
<1> QED
  BY <1>0, <1>1, DecideStep, EntryStep, FirstSaveKeepsInv, WritesKeepInv, FailuresKeepInv,
     BackgroundKeepsInv DEF Next

\* The inductive invariant holds throughout.
THEOREM InvAlways == Spec => []Inv
  BY InitInv, NextInv, PTL DEF Spec

-----------------------------------------------------------------------------
(* The refinement.                                                         *)

Recorded == [s \in SID |-> sess[s].state]

\* A step that changes a recorded state is the planned write of some call.
LEMMA OneWriter ==
  ASSUME Inv, TypeInv', [Next]_vars, ~SameStates
  PROVE  \E p \in Proc : /\ pc[p] \in {"reserved", "save"}
                         /\ sess' = [sess EXCEPT ![task[p].id] = Stored(task[p].rec, task[p].ttl)]
<1>0. TypeInv /\ TypeOK
  BY DEF Inv, TypeInv
<1>1. ASSUME UNCHANGED sess PROVE FALSE
  BY <1>1 DEF SameStates
<1>2. ASSUME NEW p \in Proc, Entry(p), ~SaveNewClient(p) PROVE UNCHANGED sess
  BY <1>2 DEF Entry, Resolve, ResolveNew, EvaluateOnly, EvaluateWaiting, HandleNewClient,
              RefuseNewClient, Call, store
<1>3. ASSUME NEW p \in Proc, Decide(p) PROVE UNCHANGED sess
  BY <1>3 DEF Decide, handleWaitElapsed, Issue, ValidateExpired, ValidateRetry, ValidateExpel,
              ValidateSolved, RotateSession, RevokeSession, Transition, ReturnEarly, store
<1>4. ASSUME NEW p \in Proc, DeleteOld(p) \/ DeleteFails(p) PROVE SameStates
  <2>1. task[p].sid \in SID /\ task[p].id \in SID
    BY <1>0, <1>4 DEF DeleteOld, DeleteFails, TypeInv, WellFormed
  <2> QED BY <1>0, <1>4, <2>1, QuietStates DEF DeleteOld, DeleteFails, SameStates, TypeOK
<1>5. ASSUME NEW p \in Proc, WriteChallenge(p) \/ SettleReservation(p) \/ Unlock(p)
                \/ ChallengeWriteFails(p) \/ ReservationFails(p) \/ UnlockFails(p) \/ Crash(p)
                \/ ReserveFails(p)
      PROVE  UNCHANGED sess
  BY <1>5 DEF WriteChallenge, SettleReservation, Unlock, ChallengeWriteFails, ReservationFails,
              UnlockFails, Crash, ReserveFails, Return, store
<1>6. ASSUME NEW p \in Proc, SaveNewClient(p) \/ SaveSession(p) \/ SaveFails(p)
                             \/ SaveNewClientFails(p)
      PROVE  \/ UNCHANGED sess
             \/ /\ pc[p] \in {"reserved", "save"}
                /\ sess' = [sess EXCEPT ![task[p].id] = Stored(task[p].rec, task[p].ttl)]
  BY <1>6 DEF SaveNewClient, SaveSession, SaveFails, SaveNewClientFails
<1>7. ~UNCHANGED vars
  BY <1>1 DEF vars, store
<1> QED
  BY <1>1, <1>2, <1>3, <1>4, <1>5, <1>6, <1>7, BackgroundKeepsInv DEF Next, Write, Fail

\* The planned write is a legal move of the one state it changes.
LEMMA StepImplements ==
  ASSUME Inv, TypeInv', [Next]_vars PROVE [FSM!Next]_Recorded
<1>0. TypeInv
  BY DEF Inv
<1>1. CASE SameStates
  BY <1>1 DEF SameStates, Recorded
<1>2. CASE ~SameStates
  <2>1. PICK p \in Proc :
          /\ pc[p] \in {"reserved", "save"}
          /\ sess' = [sess EXCEPT ![task[p].id] = Stored(task[p].rec, task[p].ttl)]
    BY <1>2, OneWriter
  <2> DEFINE w  == task[p].id
             to == task[p].rec.state
  <2>2. /\ w \in SID /\ to \in State
        /\ pc[p] = "reserved" => task[p].op = "new"
        /\ pc[p] = "save" /\ task[p].after # "move" => w = task[p].sid
    BY <1>0, <2>1 DEF TypeInv, TypeOK, WellFormed, Task, Session
  <2>3. Legal(sess[w].state, to)
    <3>1. CASE Newborn(p)
      <4>1. sess[w].state = "NEW"
        BY <2>1, <3>1 DEF Inv, Births
      <4> QED BY <2>1, <3>1, <4>1 DEF Inv, Plans, Newborn, Locked
    <3>2. CASE ~Newborn(p)
      BY <2>1, <2>2, <3>2 DEF Inv, Plans, Newborn, Locked
    <3> QED BY <3>1, <3>2
  <2>4. Recorded' = [Recorded EXCEPT ![w] = to]
    BY <1>0, <2>1, <2>2, StoredStates DEF Recorded
  <2>5. Recorded[w] = sess[w].state
    BY <2>2 DEF Recorded
  <2>6. CASE sess[w].state = to
    BY <2>4, <2>5, <2>6 DEF Recorded
  <2>7. CASE sess[w].state # to
    <3>1. PICK event \in Event : IsLegalTransition(sess[w].state, event, to)
      BY <2>3, <2>7 DEF Legal
    <3>2. FSM!IsLegalTransition(sess[w].state, event, to)
      BY <3>1 DEF FSM!IsLegalTransition, IsLegalTransition
    <3>3. event \in FSM!Event /\ to \in FSM!State
      BY <2>2 DEF FSM!Event, Event, FSM!State, State
    <3>4. /\ FSM!IsLegalTransition(Recorded[w], event, to)
          /\ Recorded' = [Recorded EXCEPT ![w] = to]
      BY <2>4, <2>5, <3>2
    <3>5. FSM!Next
      BY <2>2, <3>3, <3>4 DEF FSM!Next, FSM!Move, Recorded
    <3> QED BY <3>5
  <2> QED BY <2>6, <2>7
<1> QED BY <1>1, <1>2

\* Whatever requests, failures and crashes interleave, the state recorded under a
\* session id moves only along IsLegalTransition, as long as
\* renewals keep the lease of a running handler alive.
THEOREM ImplementsFSM ==
  Spec => RefinesFSM
<1>1. Init => FSM!Init
  BY DEF Init, FSM!Init, NoSession
<1>2. Inv /\ TypeInv' /\ [Next]_vars => [FSM!Next]_Recorded
  BY StepImplements
<1>3. Inv => TypeInv
  BY DEF Inv
<1> QED
  BY <1>1, <1>2, <1>3, InvAlways, PTL DEF Spec, RefinesFSM, FSM!Spec, Recorded

\* A revoked session never has another state: the table has no way out of REVOKED,
\* and no handler that read the record before the revocation can write it after.
THEOREM RevokedForGood ==
  Spec => RevokedIsFinal
<1>1. ASSUME Inv, TypeInv', [Next]_vars
      PROVE  [\A s \in SID : sess[s].state = "REVOKED" => sess'[s].state = "REVOKED"]_vars
  <2>1. [FSM!Next]_Recorded
    BY <1>1, StepImplements
  <2> SUFFICES ASSUME NEW s \in SID, sess[s].state = "REVOKED" PROVE sess'[s].state = "REVOKED"
    OBVIOUS
  <2>2. Recorded[s] = sess[s].state /\ Recorded'[s] = sess'[s].state
    BY DEF Recorded
  <2>3. CASE UNCHANGED Recorded
    BY <2>2, <2>3
  <2>4. CASE FSM!Next
    <3>1. PICK w \in SID, event \in FSM!Event, to \in FSM!State :
            /\ FSM!IsLegalTransition(Recorded[w], event, to)
            /\ Recorded' = [Recorded EXCEPT ![w] = to]
      BY <2>4 DEF FSM!Next, FSM!Move, Recorded
    <3>2. w # s
      BY <2>2, <3>1 DEF FSM!IsLegalTransition
    <3> QED BY <2>2, <3>1, <3>2 DEF Recorded
  <2> QED BY <2>1, <2>3, <2>4
<1>2. Inv => TypeInv
  BY DEF Inv
<1> QED
  BY <1>1, <1>2, InvAlways, PTL DEF Spec, RevokedIsFinal

-----------------------------------------------------------------------------
(* Rotation.  A replaced session stays gone, and gets one heir.            *)

\* p has replaced its session.
Replaced(p) == pc[p] \in {"resv", "unlock"} /\ task[p].after = "move"

\* A session with an heir is gone; no call is about to write it or to give it another.
Rotations ==
  /\ \A s \in SID : heir[s] # NoSID => s \in known /\ sess[s].until = 0
  /\ \A p \in Proc :
       /\ pc[p] \in {"chal", "save", "del"} \/ Replaced(p) => heir[task[p].sid] = NoSID
       /\ Replaced(p) => sess[task[p].sid].until = 0

\* A step of a call keeps it, and takes no heir away.
LEMMA ActRotations ==
  ASSUME Inv, TypeInv', Rotations, NEW p \in Proc, Acts(p)
  PROVE  Rotations' /\ \A s \in SID : heir[s] # NoSID => heir'[s] = heir[s]
<1>0. TypeInv /\ TypeOK /\ now \in Nat
  BY DEF Inv, TypeInv, TypeOK
<1>1. PICK stage, u : Become(p, stage, u) /\ Progress(p, stage, u)
  BY <1>0, Progresses
<1>2. /\ pc'[p] = stage /\ task'[p] = u
      /\ \A q \in Proc \ {p} : pc'[q] = pc[q] /\ task'[q] = task[q]
      /\ \A q \in Proc : pc[q] # "idle" => task[q].id \in SID /\ task[q].sid \in SID
  BY <1>0, <1>1, Others
<1>3. /\ now' = now /\ known \subseteq known'
      /\ \A s \in SID : heir'[s] = heir[s] \/ Succeeds(p, s)
      /\ \A s \in SID : sess'[s] = sess[s] \/ sess'[s] = GoneSession(s) \/ Writes(p, s)
      /\ \A s \in SID : GoneSession(s).until = 0
  BY <1>0, HistoryEffect, SessionEffect, GoneFields
<1>4. \A s \in SID : heir[s] # NoSID => heir'[s] = heir[s]
  BY <1>3 DEF Succeeds, Rotations, Replaced
<1>5. \A q \in Proc \ {p} : pc[q] \in Locked /\ pc[p] \in Locked => task[q].sid # task[p].sid
  BY DEF Inv, LockHeld
<1>6. ASSUME NEW s \in SID, heir'[s] # NoSID PROVE s \in known' /\ sess'[s].until = 0
  <2>1. s \in known /\ sess[s].until = 0
    <3>1. CASE heir[s] # NoSID
      BY <3>1 DEF Rotations
    <3>2. CASE Succeeds(p, s)
      BY <3>2 DEF Succeeds, Rotations, Replaced, Inv, Tenants, Locked
    <3> QED BY <1>3, <1>6, <3>1, <3>2
  <2>2. ~Writes(p, s)
    <3>1. ASSUME Writes(p, s) PROVE FALSE
      <4>1. CASE Newborn(p)
        BY <2>1, <3>1, <4>1 DEF Writes, Inv, Births
      <4>2. CASE ~Newborn(p)
        <5>1. pc[p] = "save" /\ s = task[p].sid
          BY <1>0, <3>1, <4>2 DEF Writes, Newborn, Locked, TypeInv, WellFormed
        <5>2. heir[s] = NoSID
          BY <5>1 DEF Rotations
        <5> QED BY <1>3, <1>6, <5>1, <5>2 DEF Succeeds
      <4> QED BY <4>1, <4>2
    <3> QED BY <3>1
  <2> QED BY <1>3, <2>1, <2>2
<1>7. ASSUME NEW q \in Proc \ {p}
      PROVE  /\ pc'[q] \in {"chal", "save", "del"} \/ Replaced(q)' => heir'[task'[q].sid] = NoSID
             /\ Replaced(q)' => sess'[task'[q].sid].until = 0
  <2>1. pc[q] \in Locked => heir'[task[q].sid] = heir[task[q].sid]
    BY <1>2, <1>3, <1>5 DEF Succeeds, Locked
  <2>2. pc[q] \in Locked => ~Writes(p, task[q].sid)
    BY WriteTarget DEF Writes
  <2>3. pc'[q] = pc[q] /\ task'[q] = task[q] /\ (Replaced(q)' <=> Replaced(q))
    BY <1>2 DEF Replaced
  <2> QED BY <1>2, <1>3, <2>1, <2>2, <2>3 DEF Rotations, Replaced, Locked
<1>8. /\ pc'[p] \in {"chal", "save", "del"} \/ Replaced(p)' => heir'[task'[p].sid] = NoSID
      /\ Replaced(p)' => sess'[task'[p].sid].until = 0
  <2>1. Replaced(p)' <=> stage \in {"resv", "unlock"} /\ u.after = "move"
    BY <1>2 DEF Replaced
  <2>2. CASE Decision(p, stage, u)
    <3>1. /\ pc[p] = "held" /\ u.sid = task[p].sid /\ HasSession(u.sid)
          /\ stage \in {"chal", "save"} /\ heir' = heir
      BY <2>2 DEF Decision
    <3>2. heir[u.sid] = NoSID
      BY <1>0, <1>2, <3>1 DEF HasSession, Rotations, TypeOK, Session
    <3> QED BY <1>2, <2>1, <3>1, <3>2
  <2>3. CASE ~Decision(p, stage, u) /\ (stage \in {"chal", "save", "del"} \/ Replaced(p)')
    <3>1. /\ pc[p] \in {"chal", "save", "del", "resv"} /\ u.sid = task[p].sid
          /\ pc[p] \in {"chal", "save", "del"} \/ Replaced(p)
      BY <1>1, <2>1, <2>3 DEF Progress, Replaced
    <3>2. u.sid \in SID /\ heir'[u.sid] = NoSID
      BY <1>2, <1>3, <3>1 DEF Succeeds, Rotations
    <3>3. Replaced(p)' => sess'[u.sid].until = 0
      <4>1. CASE stage = "resv" /\ pc[p] = "del" /\ sess'[u.sid] = GoneSession(u.sid)
        BY <1>3, <3>2, <4>1
      <4>2. CASE pc[p] = "resv" /\ Replaced(p)
        BY <1>3, <3>1, <3>2, <4>2 DEF Writes, Rotations
      <4> QED BY <1>1, <2>1, <2>3, <4>1, <4>2 DEF Progress, Replaced
    <3> QED BY <1>2, <3>2, <3>3
  <2> QED BY <1>2, <2>1, <2>2, <2>3
<1> QED BY <1>4, <1>6, <1>7, <1>8 DEF Rotations

\* So does every step.
LEMMA NextRotations ==
  ASSUME Inv, TypeInv', Rotations, [Next]_vars
  PROVE  Rotations' /\ \A s \in SID : heir[s] # NoSID => heir'[s] = heir[s]
<1>1. CASE Rests
  <2>1. /\ \A s \in SID : GoneSession(s).until = 0
        /\ \A q \in Proc : pc[q] # "idle" => task[q].sid \in SID
    BY GoneFields DEF Inv, TypeInv, WellFormed
  <2>2. \A s \in SID : sess[s].until = 0 => sess'[s].until = 0
    BY <1>1, <2>1 DEF Rests
  <2>3. UNCHANGED <<pc, task, heir, known>> /\ \A q \in Proc : Replaced(q)' <=> Replaced(q)
    BY <1>1 DEF Rests, Replaced
  <2> QED BY <2>1, <2>2, <2>3 DEF Rotations, Replaced
<1> QED BY <1>1, Steps, ActRotations DEF Inv

\* The invariant behind rotation holds throughout.
LEMMA RotationsAlways == Spec => []Rotations
<1>1. Init => Rotations
  BY DEF Init, Rotations, Replaced
<1>2. Inv /\ Inv' /\ Rotations /\ [Next]_vars => Rotations'
  BY NextRotations DEF Inv
<1> QED BY <1>1, <1>2, InvAlways, PTL DEF Spec

\* A session that was rotated away never comes back, whatever call was still running
\* on it, and whatever failed or died (RotateSession, evaluate).
THEOREM RotatedStaysGone == Spec => []NoResurrection
<1>1. Inv /\ Rotations => NoResurrection
  BY DEF Rotations, NoResurrection, HasSession, Inv, TypeInv, TypeOK
<1> QED BY <1>1, InvAlways, RotationsAlways, PTL

\* Concurrent rotations of one session return one new session id between them
\* (RotateSession).
THEOREM OneHeirOnly == Spec => OneHeir
<1>1. Inv /\ Inv' /\ Rotations /\ [Next]_vars =>
        [\A s \in SID : heir[s] # NoSID => heir'[s] = heir[s]]_vars
  BY NextRotations DEF Inv
<1> QED BY <1>1, InvAlways, RotationsAlways, PTL DEF Spec, OneHeir

-----------------------------------------------------------------------------
(* Ids, with or without the lock.  That a session being created is its     *)
(* creator's alone owes nothing to the lock: it holds even where a lock    *)
(* may be lost under its holder (LapsingSpec).                             *)

Ids == TypeInv /\ Births /\ Unborn /\ Tenants

LapsingNext == Next \/ \E s \in SID : LeaseLapses(s)

\* A step is of one call, or of the store, or takes a lock away.
LEMMA LapsingSteps ==
  ASSUME TypeInv, [LapsingNext]_vars PROVE TypeInv' /\ (Rests \/ \E p \in Proc : Acts(p))
<1>1. ASSUME NEW s \in SID, LeaseLapses(s) PROVE TypeInv' /\ Rests
  <2>1. TypeOK /\ lock' = [lock EXCEPT ![s] = Free]
        /\ UNCHANGED <<now, sess, chal, resv, pc, task, known, origin, heir, judged>>
    BY <1>1 DEF LeaseLapses, TypeInv, store, history
  <2> QED BY <2>1 DEF TypeInv, TypeOK, Rests
<1> QED BY <1>1, Steps, NextTypes DEF LapsingNext

\* What a step of a call adds to the ids in use.
LEMMA IdEffect ==
  ASSUME TypeInv, NEW p \in Proc, Acts(p)
  PROVE  /\ \A s \in known' : s \in known \/ (s = task[p].id /\ Newborn(p) /\ pc'[p] = "idle")
         /\ \A n \in SID : origin'[n] = 0 => origin[n] = 0
<1>0. TypeOK /\ now \in Nat \ {0} /\ pc \in [Proc -> Stage] /\ origin \in [SID -> Nat]
  BY DEF TypeInv, TypeOK
<1>1. ASSUME SaveNewClient(p) \/ Return(p)
      PROVE  \A s \in known' : s \in known \/ (s = task[p].id /\ Newborn(p) /\ pc'[p] = "idle")
  <2>1. Become(p, "idle", NoTask)
    BY <1>1 DEF SaveNewClient, Return
  <2>2. pc'[p] = "idle"
    BY <1>0, <2>1 DEF Become
  <2>3. SaveNewClient(p) => pc[p] = "reserved" /\ task[p].op = "new" /\ known' = known \cup {task[p].id}
    BY DEF SaveNewClient, TypeInv, WellFormed
  <2>4. Return(p) => /\ pc[p] = "unlock"
                     /\ known' = IF task[p].after = "move" THEN known \cup {task[p].id} ELSE known
    BY DEF Return
  <2> QED BY <1>1, <2>2, <2>3, <2>4 DEF Newborn, Locked
<1>2. ASSUME ~Return(p), ~SaveNewClient(p) PROVE UNCHANGED known
  BY <1>2
  DEF Acts, Entry, Decide, Write, Fail, Resolve, ResolveNew, EvaluateOnly, EvaluateWaiting,
      HandleNewClient, RefuseNewClient, Call,
      handleWaitElapsed, Issue, ValidateExpired, ValidateRetry, ValidateExpel,
      ValidateSolved, RotateSession, RevokeSession, Transition, ReturnEarly,
      WriteChallenge, SaveSession, DeleteOld, SettleReservation, Unlock,
      ChallengeWriteFails, SaveFails, DeleteFails, ReservationFails, ReserveFails,
      SaveNewClientFails, UnlockFails, Crash, history
<1>3. ASSUME NEW n \in SID, origin'[n] = 0 PROVE origin[n] = 0
  BY <1>0, <1>3, HistoryEffect DEF Begets
<1> QED BY <1>1, <1>2, <1>3

\* A session a call creates is new to everybody, or was already its own.
LEMMA Creates ==
  ASSUME Ids, TypeInv', NEW p \in Proc, Acts(p), Newborn(p)'
  PROVE  LET n == task'[p].id
         IN  /\ n \in SID /\ origin'[n] # 0
             /\ pc'[p] \in {"fresh", "reserved", "save"} => sess'[n].state = "NEW"
             /\ \/ origin[n] = 0
                \/ Newborn(p) /\ task[p].id = n
<1> DEFINE n == task'[p].id
<1>0. /\ TypeInv /\ TypeOK /\ now \in Nat \ {0} /\ origin \in [SID -> Nat] /\ n \in SID
      /\ pc'[p] # "idle" /\ WellFormed(pc'[p], task'[p])
  BY DEF Ids, TypeInv, TypeOK, WellFormed, Newborn, Locked
<1>1. PICK stage, u : Become(p, stage, u) /\ Progress(p, stage, u)
  BY <1>0, Progresses
<1>2. pc'[p] = stage /\ task'[p] = u
  BY <1>0, <1>1, Others
<1>3. \A s \in SID : sess'[s].state = sess[s].state \/ Writes(p, s)
  BY <1>0, SessionEffect, GoneFields
<1>4. CASE stage = "fresh"
  <2>1. /\ u.op = "new" /\ origin[n] = 0 /\ origin' = [origin EXCEPT ![n] = now]
        /\ UNCHANGED sess
    BY <1>1, <1>2, <1>4 DEF Progress, Decision, Newborn, Locked
  <2> QED BY <1>0, <2>1 DEF Ids, Unborn
<1>5. CASE stage = "reserved"
  <2>1. /\ pc[p] = "fresh" /\ task[p].op = "new" /\ n = task[p].id
        /\ origin' = [origin EXCEPT ![n] = now]
    BY <1>1, <1>2, <1>5 DEF Progress, Decision
  <2>2. Newborn(p) /\ sess[n].state = "NEW"
    BY <2>1 DEF Newborn, Ids, Births
  <2> QED BY <1>0, <1>3, <2>1, <2>2 DEF Writes
<1>6. CASE Decision(p, stage, u)
  <2>1. stage = "save" /\ Rotated(u) /\ pc[p] = "held" /\ u.sid = task[p].sid /\ UNCHANGED sess
    <3>1. stage # "fresh" /\ stage # "reserved" /\ u.after = "move"
      BY <1>2, <1>6 DEF Decision, Newborn
    <3>2. stage # "chal"
      BY <1>0, <1>2, <3>1 DEF WellFormed
    <3>3. ~Waited(u) /\ ~Revoking(u) /\ ~Moved(u)
      BY <3>1 DEF Waited, Revoking, Moved
    <3> QED BY <1>6, <3>2, <3>3 DEF Decision, store
  <2>2. origin[n] = 0 /\ origin' = [origin EXCEPT ![n] = origin[u.sid]] /\ sess[n].state = "NEW"
    BY <1>0, <1>2, <2>1 DEF Rotated, Ids, Unborn
  <2>3. origin[u.sid] # 0
    BY <1>0, <2>1 DEF Ids, Tenants, Unborn, Locked, TypeInv, WellFormed
  <2> QED BY <1>0, <2>1, <2>2, <2>3
<1>7. CASE stage \notin {"fresh", "reserved"} /\ ~Decision(p, stage, u)
  <2>1. u.after = "move" /\ stage # "held"
    BY <1>0, <1>2, <1>7 DEF Newborn, WellFormed
  <2>2. n = task[p].id /\ task[p].after = "move" /\ pc[p] \in Locked \ {"chal"} /\ stage # "save"
    BY <1>0, <1>1, <1>2, <1>7, <2>1 DEF Progress, Ids, TypeInv, WellFormed, Locked, Newborn
  <2>3. Newborn(p) /\ origin[n] # 0
    BY <2>2 DEF Newborn, Ids, Births
  <2>4. origin'[n] # 0
    BY <1>0, <2>3, HistoryEffect DEF Begets
  <2> QED BY <1>0, <1>2, <1>7, <2>2, <2>3, <2>4
<1> QED BY <1>4, <1>5, <1>6, <1>7

\* A step of a call keeps ids apart.
LEMMA ActIds ==
  ASSUME Ids, TypeInv', NEW p \in Proc, Acts(p) PROVE Ids'
<1>0. TypeInv /\ TypeOK /\ origin \in [SID -> Nat] /\ now \in Nat \ {0}
  BY DEF Ids, TypeInv, TypeOK
<1>1. PICK stage, u : Become(p, stage, u) /\ Progress(p, stage, u)
  BY <1>0, Progresses
<1>2. /\ pc'[p] = stage /\ task'[p] = u
      /\ \A q \in Proc \ {p} : pc'[q] = pc[q] /\ task'[q] = task[q]
      /\ \A q \in Proc \ {p} : Newborn(q)' <=> Newborn(q)
      /\ \A q \in Proc : Newborn(q) => task[q].id \in SID
  BY <1>0, <1>1, Others
<1>3. /\ \A s \in SID : sess'[s].state = sess[s].state \/ Writes(p, s)
      /\ \A s \in SID : origin'[s] = origin[s] \/ Begets(p, s)
      /\ known \subseteq known'
  BY <1>0, SessionEffect, GoneFields, HistoryEffect
<1>4. /\ \A s \in known' : s \in known \/ (s = task[p].id /\ Newborn(p) /\ pc'[p] = "idle")
      /\ \A n \in SID : origin'[n] = 0 => origin[n] = 0
  BY <1>0, IdEffect
<1>5. pc[p] \in {"reserved", "save"} => Newborn(p) \/ task[p].id \in known
  BY <1>0 DEF Newborn, Locked, Ids, Tenants, TypeInv, WellFormed
<1>6. ASSUME NEW n \in SID, n \notin known, ~(Newborn(p) /\ task[p].id = n)
      PROVE  n \notin known' /\ sess'[n].state = sess[n].state
  BY <1>3, <1>4, <1>5, <1>6 DEF Writes
<1>7. ASSUME NEW q \in Proc \ {p}, Newborn(q)
      PROVE  /\ task[q].id \in SID /\ origin'[task[q].id] # 0 /\ task[q].id \notin known'
             /\ sess'[task[q].id].state = sess[task[q].id].state
             /\ Newborn(p)' => task'[p].id # task[q].id
  <2>1. /\ origin[task[q].id] # 0 /\ task[q].id \notin known
        /\ ~(Newborn(p) /\ task[p].id = task[q].id) /\ task[q].id \in SID
    BY <1>2, <1>7 DEF Ids, Births
  <2>2. origin'[task[q].id] # 0
    BY <1>4, <2>1, <1>3, <1>0 DEF Begets
  <2> QED BY <1>6, <2>1, <2>2, Creates
<1>8. ASSUME NEW q \in Proc, Newborn(q)'
      PROVE  /\ origin'[task'[q].id] # 0
             /\ task'[q].id \notin known'
             /\ pc'[q] \in {"fresh", "reserved", "save"} => sess'[task'[q].id].state = "NEW"
             /\ \A o \in Proc : Newborn(o)' /\ task'[o].id = task'[q].id => o = q
  <2>1. CASE q # p
    BY <1>2, <1>7, <1>8, <2>1 DEF Ids, Births
  <2>2. CASE q = p
    <3>1. /\ task'[p].id \in SID /\ origin'[task'[p].id] # 0
          /\ pc'[p] \in {"fresh", "reserved", "save"} => sess'[task'[p].id].state = "NEW"
          /\ origin[task'[p].id] = 0 \/ (Newborn(p) /\ task[p].id = task'[p].id)
      BY <1>8, <2>2, Creates
    <3>2. task'[p].id \notin known
      BY <3>1 DEF Ids, Unborn, Births
    <3>3. pc'[p] # "idle"
      BY <1>8, <2>2 DEF Newborn, Locked
    <3>4. task'[p].id \notin known'
      BY <1>4, <3>2, <3>3
    <3>5. ASSUME NEW o \in Proc, Newborn(o)', task'[o].id = task'[p].id PROVE o = p
      <4>1. CASE o # p
        <5>1. Newborn(o) /\ task'[o].id = task[o].id
          BY <1>2, <3>5, <4>1
        <5>2. Newborn(p)' => task'[p].id # task[o].id
          BY <1>7, <4>1, <5>1
        <5> QED BY <1>8, <2>2, <3>5, <5>1, <5>2
      <4> QED BY <4>1
    <3> QED BY <2>2, <3>1, <3>4, <3>5
  <2> QED BY <2>1, <2>2
<1>9. ASSUME NEW n \in SID, origin'[n] = 0 PROVE sess'[n].state = "NEW" /\ n \notin known'
  <2>1. origin[n] = 0 /\ sess[n].state = "NEW" /\ n \notin known
    BY <1>4, <1>9 DEF Ids, Unborn
  <2>2. ~(Newborn(p) /\ task[p].id = n)
    BY <2>1 DEF Ids, Births
  <2> QED BY <1>6, <2>1, <2>2
<1>10. ASSUME NEW q \in Proc, pc'[q] \in Locked \/ (pc'[q] = "fresh" /\ task'[q].op # "new")
       PROVE  task'[q].sid \in known'
  <2>1. CASE q # p
    BY <1>2, <1>3, <1>10, <2>1 DEF Ids, Tenants
  <2>2. CASE q = p
    <3>1. \/ u.sid \in known
          \/ u.sid = task[p].sid /\ (pc[p] \in Locked \/ (pc[p] = "fresh" /\ task[p].op # "new"))
      BY <1>1, <1>2, <1>10, <2>2 DEF Progress, Decision, Locked
    <3> QED BY <1>2, <1>3, <2>2, <3>1 DEF Ids, Tenants
  <2> QED BY <2>1, <2>2
<1> QED BY <1>8, <1>9, <1>10 DEF Ids, Births, Unborn, Tenants

\* So does every step.
LEMMA NextIds == Ids /\ [LapsingNext]_vars => Ids'
<1> SUFFICES ASSUME Ids, [LapsingNext]_vars PROVE Ids'
  OBVIOUS
<1>1. TypeInv' /\ (Rests \/ \E p \in Proc : Acts(p))
  BY LapsingSteps DEF Ids
<1>2. CASE Rests
  <2>1. \A s \in SID : sess'[s].state = sess[s].state
    BY <1>2, GoneFields DEF Rests, Ids, TypeInv
  <2>2. UNCHANGED <<pc, task, origin, known>> /\ \A q \in Proc : Newborn(q)' <=> Newborn(q)
    BY <1>2 DEF Rests, Newborn
  <2>3. \A q \in Proc : Newborn(q) => task[q].id \in SID
    BY DEF Ids, TypeInv, WellFormed, Newborn, Locked
  <2> QED BY <1>1, <2>1, <2>2, <2>3 DEF Ids, Births, Unborn, Tenants
<1> QED BY <1>1, <1>2, ActIds

LEMMA LapsingBox == LapsingSpec => Init /\ [][LapsingNext]_vars
<1>1. [Next \/ \E s \in SID : LeaseLapses(s)]_vars => [LapsingNext]_vars
  BY DEF LapsingNext
<1> QED BY <1>1, PTL DEF LapsingSpec

\* Locks that are kept are a case of locks that may be lost.
LEMMA SpecLapses == Spec => LapsingSpec
<1>1. [Next]_vars => [Next \/ \E s \in SID : LeaseLapses(s)]_vars
  OBVIOUS
<1> QED BY <1>1, PTL DEF Spec, LapsingSpec

\* Ids stay apart whether or not a lock may be lost.
LEMMA IdsAlways == LapsingSpec => []Ids
<1>1. Init => Ids
  BY InitInv DEF Inv, Ids
<1> QED BY <1>1, LapsingBox, NextIds, PTL

\* Type correctness where a lock may be lost: every record that is stored, or about to be,
\* is still whole.
THEOREM TypesNeedNoLock == LapsingSpec => []TypeOK
<1>1. Ids => TypeOK
  BY DEF Ids, TypeInv
<1> QED BY <1>1, IdsAlways, PTL

-----------------------------------------------------------------------------
(* The absolute lifetime.  Every record carries the end of its lineage.    *)

\* A record whose lineage began at o carries the end of it, and expires by then.
Capped(r, o) ==
  /\ r.state # "NEW"
  /\ AbsLifetime > 0 =>
       /\ r.absExpiresAt = o + AbsLifetime
       /\ r.state \notin {"REVOKED", "EXPIRED"} => r.expiresAt > 0 /\ r.expiresAt <= o + AbsLifetime

\* p has decided to write a record.
Saving(p) == pc[p] \in {"reserved", "save"} \/ (pc[p] = "chal" /\ task[p].ttl > 0)

Ceilings ==
  /\ \A s \in SID : sess[s].until # 0 => Capped(sess[s], origin[s])
  /\ \A p \in Proc : Saving(p) => Capped(task[p].rec, origin[task[p].id])

\* What is cut off at the ceiling is below it.
LEMMA CeilingCaps ==
  ASSUME NEW r \in Session, NEW o \in Nat, NEW x \in Nat \ {0}, AbsLifetime > 0,
         r.absExpiresAt = o + AbsLifetime
  PROVE  Ceiling(r, x) > 0 /\ Ceiling(r, x) <= o + AbsLifetime
  BY ConfigAssumption DEF ValidConfig, Ceiling, Session

\* A record keeps its cap when its end is kept or cut off again.
LEMMA CapKept ==
  ASSUME NEW r \in Session, NEW o \in Nat, Capped(r, o), NEW x \in Session,
         x.absExpiresAt = r.absExpiresAt, x.state # "NEW",
         \/ x.state \in {"REVOKED", "EXPIRED"}
         \/ x.expiresAt = r.expiresAt /\ r.state \notin {"REVOKED", "EXPIRED"}
         \/ \E e \in Nat \ {0} : x.expiresAt = Ceiling(r, e)
  PROVE  Capped(x, o)
  BY CeilingCaps DEF Capped

\* Every decision keeps the cap of the record it was taken on.
LEMMA DecisionsCapped ==
  ASSUME NEW r \in Session, NEW o \in Nat, NEW t \in Nat \ {0}, Capped(r, o)
  PROVE  /\ Capped(LeaveWaitRoom(r, t), o)
         /\ r.state = "CHALLENGE_REQUIRED" => \A c \in CID : Capped([r EXCEPT !.challenge = c], o)
         /\ r.state = "CHALLENGE_REQUIRED" => Capped(Expelled(r, t), o)
         /\ Capped(Solved(r, t), o) /\ Capped(Successor(r, t), o) /\ Capped(Revoked(r), o)
         /\ \A event \in Event, to \in State :
              IsLegalTransition(r.state, event, to) => Capped(Transitioned(r, to, t), o)
<1>0. /\ t + SessionTTL \in Nat \ {0} /\ t + WaitTime + WaitGrace \in Nat \ {0}
      /\ t + (IF Captcha THEN CaptchaTTL + CaptchaGrace ELSE SessionTTL) \in Nat \ {0}
  BY ConfigAssumption DEF ValidConfig
<1>1. Capped(LeaveWaitRoom(r, t), o)
  <2> DEFINE x == LeaveWaitRoom(r, t)
  <2>1. x \in Session
    BY LeaveType
  <2>2. /\ x.absExpiresAt = r.absExpiresAt /\ x.state # "NEW"
        /\ x.expiresAt = Ceiling(r, t + (IF Captcha THEN CaptchaTTL + CaptchaGrace ELSE SessionTTL))
    BY DEF LeaveWaitRoom, Session
  <2> HIDE DEF x
  <2>3. Capped(x, o)
    BY <1>0, <2>1, <2>2, CapKept
  <2> QED BY <2>3 DEF x
<1>2. ASSUME r.state = "CHALLENGE_REQUIRED", NEW c \in CID PROVE Capped([r EXCEPT !.challenge = c], o)
  <2> DEFINE x == [r EXCEPT !.challenge = c]
  <2>1. /\ x \in Session /\ x.absExpiresAt = r.absExpiresAt /\ x.state = r.state
        /\ x.expiresAt = r.expiresAt
    BY DEF Session
  <2> HIDE DEF x
  <2>2. Capped(x, o)
    BY <1>2, <2>1, CapKept
  <2> QED BY <2>2 DEF x
<1>3. ASSUME r.state = "CHALLENGE_REQUIRED" PROVE Capped(Expelled(r, t), o)
  <2> DEFINE x == Expelled(r, t)
  <2>1. x \in Session
    BY ExpelledType
  <2>2. /\ x.absExpiresAt = r.absExpiresAt /\ x.state \in {r.state, "WAITING"}
        /\ x.expiresAt = r.expiresAt \/ x.expiresAt = Ceiling(r, t + WaitTime + WaitGrace)
    BY DEF Expelled, Session
  <2> HIDE DEF x
  <2>3. Capped(x, o)
    BY <1>0, <1>3, <2>1, <2>2, CapKept
  <2> QED BY <2>3 DEF x
<1>4. Capped(Solved(r, t), o)
  <2> DEFINE x == Solved(r, t)
  <2>1. x \in Session
    BY OutcomeType
  <2>2. /\ x.absExpiresAt = r.absExpiresAt /\ x.state = "ADMITTED"
        /\ x.expiresAt = Ceiling(r, t + SessionTTL)
    BY DEF Solved, Session
  <2> HIDE DEF x
  <2>3. Capped(x, o)
    BY <1>0, <2>1, <2>2, CapKept
  <2> QED BY <2>3 DEF x
<1>5. Capped(Successor(r, t), o)
  <2> DEFINE x == Successor(r, t)
  <2>1. x \in Session
    BY OutcomeType
  <2>2. /\ x.absExpiresAt = r.absExpiresAt /\ x.state = "ADMITTED"
        /\ x.expiresAt = Ceiling(r, t + SessionTTL)
    BY DEF Successor, Session
  <2> HIDE DEF x
  <2>3. Capped(x, o)
    BY <1>0, <2>1, <2>2, CapKept
  <2> QED BY <2>3 DEF x
<1>6. Capped(Revoked(r), o)
  <2> DEFINE x == Revoked(r)
  <2>1. x \in Session
    BY OutcomeType
  <2>2. x.absExpiresAt = r.absExpiresAt /\ x.state = "REVOKED"
    BY DEF Revoked, Session
  <2> HIDE DEF x
  <2>3. Capped(x, o)
    BY <2>1, <2>2, CapKept
  <2> QED BY <2>3 DEF x
<1>7. ASSUME NEW event \in Event, NEW to \in State, IsLegalTransition(r.state, event, to)
      PROVE  Capped(Transitioned(r, to, t), o)
  <2> DEFINE x == Transitioned(r, to, t)
  <2>1. x \in Session
    BY TransitionedType
  <2>2. x.absExpiresAt = r.absExpiresAt /\ x.state = to
    BY DEF Transitioned, Session
  <2>3. /\ to = "ADMITTED" => x.expiresAt = Ceiling(r, t + SessionTTL)
        /\ to \notin {"ADMITTED", "REVOKED", "EXPIRED"} => x.expiresAt = r.expiresAt
    BY DEF Transitioned, Session
  <2>4. to # "NEW" /\ (to \notin {"REVOKED", "EXPIRED"} => r.state \notin {"REVOKED", "EXPIRED"})
    BY <1>7 DEF IsLegalTransition
  <2> HIDE DEF x
  <2>5. Capped(x, o)
    BY <1>0, <2>1, <2>2, <2>3, <2>4, CapKept
  <2> QED BY <2>5 DEF x
<1> QED BY <1>1, <1>2, <1>3, <1>4, <1>5, <1>6, <1>7

\* handleNewClient starts the lineage.
LEMMA AdmitCapped ==
  ASSUME NEW r \in Session, NEW t \in Nat \ {0} PROVE Capped(Admit(r, t), t)
<1> DEFINE abs  == IF AbsLifetime > 0 THEN t + AbsLifetime ELSE 0
           life == IF WaitRoom THEN WaitTime + WaitGrace
                   ELSE IF Captcha THEN CaptchaTTL + CaptchaGrace ELSE SessionTTL
           ra   == [r EXCEPT !.absExpiresAt = abs]
           x    == Admit(r, t)
<1>1. abs \in Nat /\ t + life \in Nat \ {0} /\ (AbsLifetime > 0 => abs = t + AbsLifetime)
  BY ConfigAssumption DEF ValidConfig
<1>2. x.absExpiresAt = abs /\ x.expiresAt = Ceiling(ra, t + life)
  BY DEF Admit, Session
<1>3. x.state \in {"WAITING", "CHALLENGE_REQUIRED", "ADMITTED"}
  BY AdmitType
<1> HIDE DEF abs, life, x
<1>4. ra \in Session /\ ra.absExpiresAt = abs
  BY <1>1 DEF Session
<1> HIDE DEF ra
<1>5. Capped(x, t)
  BY <1>1, <1>2, <1>3, <1>4, CeilingCaps DEF Capped
<1> QED BY <1>5 DEF x

\* The time a record is kept for has nothing to do with its cap.
LEMMA StoredCapped ==
  ASSUME NEW r \in Session, NEW ttl \in Nat, NEW o, Capped(r, o) PROVE Capped(Stored(r, ttl), o)
  BY DEF Capped, Stored, Session

\* A call's lineage does not change while it is about to write.
LEMMA LineageKept ==
  ASSUME Ids, NEW p \in Proc, Acts(p), NEW q \in Proc,
         pc[q] \in {"reserved", "chal", "save", "del", "resv"}
  PROVE  task[q].id \in SID /\ origin[task[q].id] # 0 /\ origin'[task[q].id] = origin[task[q].id]
<1>1. /\ task[q].id \in SID
      /\ Newborn(q) \/ (task[q].id = task[q].sid /\ pc[q] \in Locked)
  BY DEF Ids, TypeInv, WellFormed, Newborn, Locked
<1>2. origin[task[q].id] # 0
  BY <1>1 DEF Ids, Births, Tenants, Unborn
<1>3. ~(pc[p] = "fresh" /\ task[p].op = "new" /\ task[q].id = task[p].id)
  BY <1>1 DEF Ids, Births, Tenants, Newborn, Locked
<1>4. TypeInv
  BY DEF Ids
<1> QED BY <1>1, <1>2, <1>3, <1>4, HistoryEffect DEF Begets

\* A step of a call keeps the caps.
LEMMA ActCeilings ==
  ASSUME Ids, TypeInv', Ceilings, NEW p \in Proc, Acts(p) PROVE Ceilings'
<1>0. /\ TypeInv /\ TypeOK /\ now \in Nat \ {0} /\ origin \in [SID -> Nat]
      /\ sess \in [SID -> Session] /\ task \in [Proc -> Task]
  BY DEF Ids, TypeInv, TypeOK
<1>1. PICK stage, u : Become(p, stage, u) /\ Progress(p, stage, u)
  BY <1>0, Progresses
<1>2. /\ pc'[p] = stage /\ task'[p] = u
      /\ \A q \in Proc \ {p} : pc'[q] = pc[q] /\ task'[q] = task[q]
      /\ \A q \in Proc : pc[q] # "idle" => task[q].id \in SID /\ task[q].sid \in SID
  BY <1>0, <1>1, Others
<1>a. \A q \in Proc : pc[q] \in {"reserved", "chal", "save", "del", "resv"} =>
        /\ task[q].id \in SID /\ origin[task[q].id] # 0
        /\ origin'[task[q].id] = origin[task[q].id]
  BY LineageKept
<1>3. ASSUME NEW s \in SID, sess'[s].until # 0 PROVE Capped(sess'[s], origin'[s])
  <2>1. CASE sess'[s] = sess[s]
    <3>1. Capped(sess[s], origin[s])
      BY <1>3, <2>1 DEF Ceilings
    <3>2. sess[s].state # "NEW"
      BY <3>1 DEF Capped
    <3>3. ~Begets(p, s)
      BY <3>2 DEF Begets, Ids, Unborn, Births, Newborn
    <3>4. origin'[s] = origin[s]
      BY <1>0, <3>3, HistoryEffect
    <3> QED BY <2>1, <3>1, <3>4
  <2>2. CASE Writes(p, s)
    <3>1. /\ pc[p] \in {"reserved", "save"} /\ s = task[p].id
          /\ sess'[s] = Stored(task[p].rec, task[p].ttl)
      BY <2>2 DEF Writes
    <3>2. task[p].rec \in Session /\ task[p].ttl \in Nat
      BY <1>0, <3>1 DEF TypeInv, WellFormed, Task
    <3>3. Capped(task[p].rec, origin[s])
      BY <3>1 DEF Ceilings, Saving
    <3>4. origin'[s] = origin[s]
      BY <1>a, <3>1
    <3>5. Capped(sess'[s], origin[s])
      BY <3>1, <3>2, <3>3, StoredCapped
    <3> QED BY <3>4, <3>5
  <2> QED BY <1>0, <1>3, <2>1, <2>2, SessionEffect, GoneFields
<1>4. ASSUME NEW q \in Proc, Saving(q), task'[q] = task[q]
      PROVE  Capped(task'[q].rec, origin'[task'[q].id])
  BY <1>4, <1>a DEF Ceilings, Saving
<1>5. ASSUME NEW q \in Proc \ {p}, Saving(q)' PROVE Capped(task'[q].rec, origin'[task'[q].id])
  BY <1>2, <1>4, <1>5 DEF Saving
<1>6. ASSUME Saving(p)' PROVE Capped(u.rec, origin'[u.id])
  <2>1. CASE stage = "reserved" /\ ~Decision(p, stage, u)
    <3>1. /\ pc[p] = "fresh" /\ u.id = task[p].id /\ u.rec = Admit(task[p].rec, now)
          /\ origin' = [origin EXCEPT ![u.id] = now]
      BY <1>1, <2>1 DEF Progress
    <3>2. u.id \in SID /\ task[p].rec \in Session
      BY <1>0, <1>2, <3>1 DEF Task
    <3>3. origin'[u.id] = now
      BY <1>0, <3>1, <3>2
    <3> QED BY <1>0, <3>1, <3>2, <3>3, AdmitCapped
  <2>2. CASE stage = "save" /\ pc[p] = "chal" /\ u = task[p] /\ u.ttl > 0
    BY <1>2, <1>4, <2>2 DEF Saving
  <2>3. CASE Decision(p, stage, u)
    <3> DEFINE r == sess[u.sid]
               o == origin[u.sid]
    <3>1. u.sid \in SID /\ r \in Session /\ o \in Nat /\ HasSession(u.sid)
      BY <1>0, <1>2, <2>3 DEF Decision
    <3>2. Capped(r, o)
      BY <1>0, <3>1 DEF Ceilings, HasSession, Session
    <3> HIDE DEF r, o
    <3>3. /\ Capped(LeaveWaitRoom(r, now), o)
          /\ r.state = "CHALLENGE_REQUIRED" => \A c \in CID : Capped([r EXCEPT !.challenge = c], o)
          /\ r.state = "CHALLENGE_REQUIRED" => Capped(Expelled(r, now), o)
          /\ Capped(Solved(r, now), o) /\ Capped(Successor(r, now), o) /\ Capped(Revoked(r), o)
          /\ \A event \in Event, to \in State :
               IsLegalTransition(r.state, event, to) => Capped(Transitioned(r, to, now), o)
      BY <1>0, <3>1, <3>2, DecisionsCapped
    <3>4. CASE Rotated(u)
      <4>1. u.rec = Successor(r, now) /\ u.id \in SID /\ origin' = [origin EXCEPT ![u.id] = o]
        BY <3>4 DEF Rotated, r, o
      <4> QED BY <1>0, <3>3, <4>1
    <3>5. CASE ~Rotated(u)
      <4>1. u.id = u.sid /\ origin'[u.id] = o
        BY <2>3, <3>5 DEF Decision, o
      <4>2. CASE Waited(u)
        BY <3>3, <4>1, <4>2 DEF Waited, r
      <4>3. CASE Revoking(u)
        BY <3>3, <4>1, <4>3 DEF Revoking, r
      <4>4. CASE Moved(u)
        BY <3>3, <4>1, <4>4 DEF Moved, r
      <4>5. CASE Issued(u)
        BY <3>3, <4>1, <4>5 DEF Issued, Issuable, r
      <4>6. CASE stage = "chal" /\ Answered(u)
        <5>1. u.ttl > 0
          BY <1>2, <1>6, <4>6 DEF Saving
        <5>2. u.rec = Expelled(r, now) \/ u.rec = Solved(r, now)
          BY <4>6, <5>1 DEF Answered, r
        <5> QED BY <3>3, <4>1, <4>6, <5>2 DEF Answered, MayAnswer, r
      <4> QED BY <2>3, <3>5, <4>2, <4>3, <4>4, <4>5, <4>6 DEF Decision
    <3> QED BY <3>4, <3>5
  <2> QED BY <1>1, <1>2, <1>6, <2>1, <2>2, <2>3 DEF Progress, Saving
<1> QED BY <1>2, <1>3, <1>5, <1>6 DEF Ceilings

\* So does every step.
LEMMA NextCeilings ==
  ASSUME Ids, TypeInv', Ceilings, [LapsingNext]_vars PROVE Ceilings'
<1>1. CASE Rests
  <2>1. \A s \in SID : GoneSession(s).until = 0
    BY GoneFields DEF Ids, TypeInv
  <2>2. UNCHANGED <<pc, task, origin>> /\ \A q \in Proc : Saving(q)' <=> Saving(q)
    BY <1>1 DEF Rests, Saving
  <2>3. \A s \in SID : sess'[s].until # 0 => sess'[s] = sess[s]
    BY <1>1, <2>1 DEF Rests
  <2> QED BY <2>2, <2>3 DEF Ceilings
<1> QED BY <1>1, LapsingSteps, ActCeilings DEF Ids

\* However often it is rotated, and even where a lock may be lost under its holder, no
\* live session outlasts AbsLifetime after its lineage was first admitted
\* (handleNewClient, RotateSession, Validate, handleWaitElapsed).
THEOREM CeilingNeedsNoLock == LapsingSpec => []AbsoluteCeiling
<1>1. Init => Ceilings
  BY DEF Init, Ceilings, Saving, NoSession
<1>2. Ids /\ Ids' /\ Ceilings /\ [LapsingNext]_vars => Ceilings'
  BY NextCeilings DEF Ids
<1>3. Ids /\ Ceilings => AbsoluteCeiling
  BY DEF Ceilings, Capped, AbsoluteCeiling, HasSession, Ids, TypeInv, TypeOK
<1> QED BY <1>1, <1>2, <1>3, IdsAlways, LapsingBox, PTL

\* In particular where locks are kept.
THEOREM CeilingKept == Spec => []AbsoluteCeiling
  BY SpecLapses, CeilingNeedsNoLock

-----------------------------------------------------------------------------
(* The waiting room.                                                       *)

\* What a call is about to save takes a session out of the waiting room only after
\* WaitTime.
Patience ==
  \A p \in Proc : Saving(p) /\ pc[p] # "reserved" /\ task[p].after # "move" =>
    LET r == sess[task[p].sid]
    IN  r.until # 0 /\ r.state = "WAITING" /\ task[p].rec.state \in {"CHALLENGE_REQUIRED", "ADMITTED"}
          => now - r.firstSeen >= WaitTime

\* A step of a call that is not an operator's transition keeps it.
LEMMA ActPatience ==
  ASSUME Inv, TypeInv', Patience, "transition" \notin Ops, NEW p \in Proc, Acts(p) PROVE Patience'
<1>0. TypeInv /\ TypeOK /\ now \in Nat \ {0} /\ sess \in [SID -> Session]
  BY DEF Inv, TypeInv, TypeOK
<1>1. PICK stage, u : Become(p, stage, u) /\ Progress(p, stage, u)
  BY <1>0, Progresses
<1>2. /\ pc'[p] = stage /\ task'[p] = u
      /\ \A q \in Proc \ {p} : pc'[q] = pc[q] /\ task'[q] = task[q]
      /\ \A q \in Proc : pc[q] # "idle" => task[q].id \in SID /\ task[q].sid \in SID
  BY <1>0, <1>1, Others
<1>3. /\ now' = now
      /\ \A s \in SID : sess'[s] = sess[s] \/ sess'[s] = GoneSession(s) \/ Writes(p, s)
      /\ \A s \in SID : GoneSession(s).until = 0
  BY <1>0, HistoryEffect, SessionEffect, GoneFields
<1>4. ASSUME NEW q \in Proc, q # p \/ pc[p] = "chal", pc[q] \in {"chal", "save"}
      PROVE  task[q].sid \in SID /\ (sess'[task[q].sid].until # 0 => sess'[task[q].sid] = sess[task[q].sid])
  <2>1. task[q].sid \in SID /\ ~Writes(p, task[q].sid)
    BY <1>2, <1>4, WriteTarget DEF Writes, Locked
  <2> QED BY <1>3, <2>1
<1>5. ASSUME NEW q \in Proc, Saving(q)', pc'[q] # "reserved", task'[q].after # "move",
             task'[q] = task[q], Saving(q), pc[q] # "reserved", q # p \/ pc[p] = "chal",
             sess'[task[q].sid].until # 0, sess'[task[q].sid].state = "WAITING",
             task[q].rec.state \in {"CHALLENGE_REQUIRED", "ADMITTED"}
      PROVE  now' - sess'[task[q].sid].firstSeen >= WaitTime
  <2>1. sess'[task[q].sid] = sess[task[q].sid]
    BY <1>4, <1>5 DEF Saving
  <2> QED BY <1>3, <1>5, <2>1 DEF Patience
<1>6. ASSUME Saving(p)', stage # "reserved", u.after # "move", Decision(p, stage, u),
             sess'[u.sid].state = "WAITING", u.rec.state \in {"CHALLENGE_REQUIRED", "ADMITTED"}
      PROVE  now' - sess'[u.sid].firstSeen >= WaitTime
  <2>1. sess' = sess /\ u.sid \in SID /\ u \in Task
    BY <1>0, <1>2, <1>6 DEF Decision, store, TypeInv, TypeOK
  <2>2. CASE Waited(u)
    BY <1>3, <2>1, <2>2 DEF Waited, StillOver, WaitOver
  <2>3. CASE Rotated(u)
    BY <1>6, <2>3 DEF Rotated
  <2>4. CASE Revoking(u)
    BY <1>0, <1>6, <2>1, <2>4 DEF Revoking, Revoked, Session
  <2>5. CASE Moved(u)
    BY <2>1, <2>5 DEF Moved, Task
  <2>6. CASE Issued(u) \/ Answered(u)
    BY <1>6, <2>1, <2>6 DEF Issued, Issuable, Answered, MayAnswer
  <2> QED BY <1>6, <2>2, <2>3, <2>4, <2>5, <2>6 DEF Decision
<1>7. ASSUME NEW q \in Proc, Saving(q)', pc'[q] # "reserved", task'[q].after # "move",
             sess'[task'[q].sid].until # 0, sess'[task'[q].sid].state = "WAITING",
             task'[q].rec.state \in {"CHALLENGE_REQUIRED", "ADMITTED"}
      PROVE  now' - sess'[task'[q].sid].firstSeen >= WaitTime
  <2>1. CASE q # p
    BY <1>2, <1>5, <1>7, <2>1 DEF Saving
  <2>2. CASE q = p /\ Decision(p, stage, u)
    BY <1>2, <1>6, <1>7, <2>2
  <2>3. CASE q = p /\ ~Decision(p, stage, u)
    <3>1. stage = "save" /\ pc[p] = "chal" /\ u = task[p] /\ u.ttl > 0
      BY <1>1, <1>2, <1>7, <2>3 DEF Progress, Saving
    <3>2. Saving(p) /\ task'[p] = task[p]
      BY <1>2, <3>1 DEF Saving
    <3> QED BY <1>5, <1>7, <2>3, <3>1, <3>2
  <2> QED BY <2>1, <2>2, <2>3
<1> QED BY <1>7 DEF Patience

\* So does every step; and the step that takes a session out of the waiting room is a
\* planned save.
LEMMA NextPatience ==
  ASSUME Inv, TypeInv', Patience, "transition" \notin Ops, [Next]_vars
  PROVE  /\ Patience'
         /\ \A s \in SID :
              /\ HasSession(s)
              /\ sess[s].state = "WAITING"
              /\ sess'[s].state \in {"CHALLENGE_REQUIRED", "ADMITTED"}
              => now - sess[s].firstSeen >= WaitTime
<1>0. /\ TypeInv /\ TypeOK /\ now \in Nat \ {0} /\ sess \in [SID -> Session] /\ now' \in Nat
      /\ WaitTime \in Nat
      /\ \A s \in SID : GoneSession(s).until = 0 /\ GoneSession(s).state = sess[s].state
  BY GoneFields, ConfigAssumption DEF Inv, TypeInv, TypeOK, ValidConfig
<1>1. CASE Rests
  <2>1. UNCHANGED <<pc, task>> /\ \A q \in Proc : Saving(q)' <=> Saving(q)
    BY <1>1 DEF Rests, Saving
  <2>2. \A s \in SID : sess'[s].state = sess[s].state /\ (sess'[s].until # 0 => sess'[s] = sess[s])
    BY <1>0, <1>1 DEF Rests
  <2>3. \A q \in Proc : Saving(q) => task[q].sid \in SID
    BY <1>0 DEF TypeInv, WellFormed, Saving
  <2>4. ASSUME NEW q \in Proc, Saving(q)', pc'[q] # "reserved", task'[q].after # "move",
               sess'[task'[q].sid].until # 0, sess'[task'[q].sid].state = "WAITING",
               task'[q].rec.state \in {"CHALLENGE_REQUIRED", "ADMITTED"}
        PROVE  now' - sess'[task'[q].sid].firstSeen >= WaitTime
    <3>1. Saving(q) /\ task[q].sid \in SID /\ sess'[task[q].sid] = sess[task[q].sid]
      BY <2>1, <2>2, <2>3, <2>4
    <3>2. now - sess[task[q].sid].firstSeen >= WaitTime
      BY <2>1, <2>4, <3>1 DEF Patience
    <3> QED BY <1>0, <1>1, <2>1, <3>1, <3>2 DEF Rests, Session
  <2>5. Patience'
    BY <2>4 DEF Patience
  <2> QED BY <2>2, <2>5
<1>2. ASSUME NEW p \in Proc, Acts(p), NEW s \in SID, HasSession(s), sess[s].state = "WAITING",
             sess'[s].state \in {"CHALLENGE_REQUIRED", "ADMITTED"}
      PROVE  now - sess[s].firstSeen >= WaitTime
  <2>1. Writes(p, s)
    BY <1>0, <1>2, SessionEffect
  <2>2. ~Newborn(p)
    BY <1>2, <2>1 DEF Writes, Inv, Births
  <2>3. pc[p] = "save" /\ task[p].after # "move" /\ s = task[p].sid /\ Saving(p)
    BY <1>0, <2>1, <2>2 DEF Writes, Newborn, Locked, TypeInv, WellFormed, Saving
  <2>4. sess'[s].state = task[p].rec.state
    <3>1. task[p].rec \in Session
      BY <1>0 DEF TypeInv, TypeOK, Task
    <3> QED BY <2>1, <3>1 DEF Writes, Stored, Session
  <2> QED BY <1>0, <1>2, <2>3, <2>4 DEF Patience, HasSession, Session
<1> QED BY <1>1, <1>2, Steps, ActPatience DEF Inv

\* Where operators do not move sessions by hand, none leaves the waiting room before
\* it has waited for WaitTime, whatever snapshot the request that moves it started
\* from (handleWaitElapsed's re-check, Validate's expulsion).
THEOREM PatienceAlwaysServed ==
  ASSUME "transition" \notin Ops PROVE Spec => PatienceServed
<1>1. Init => Patience
  BY DEF Init, Patience, Saving
<1>2. Inv /\ Inv' /\ Patience /\ [Next]_vars =>
        /\ Patience'
        /\ [\A s \in SID :
              /\ HasSession(s)
              /\ sess[s].state = "WAITING"
              /\ sess'[s].state \in {"CHALLENGE_REQUIRED", "ADMITTED"}
              => now - sess[s].firstSeen >= WaitTime]_vars
  BY NextPatience DEF Inv
<1> QED BY <1>1, <1>2, InvAlways, PTL DEF Spec, PatienceServed

-----------------------------------------------------------------------------
(* Capacity slots.                                                         *)

\* p has revoked or expired s and is about to give its slot back.
Releasing(p, s) == pc[p] = "resv" /\ task[p].after = "release" /\ task[p].id = s

\* Only calls that release the slot write revoked records, and a call settles the slot
\* of the record it has just written.
Bookings ==
  \A p \in Proc :
    /\ pc[p] = "reserved" => task[p].rec.state # "REVOKED"
    /\ Saving(p) \/ pc[p] \in {"del", "resv"} =>
         task[p].after = "release" \/ task[p].rec.state # "REVOKED"
    /\ pc[p] \in {"del", "resv"} => sess[task[p].id].state = task[p].rec.state

\* Where no store call fails and nobody dies, a revoked session has no slot either, or
\* is about to lose it.
Slots ==
  /\ \A s \in SID : sess[s].state = "REVOKED" => resv[s] = 0 \/ \E p \in Proc : Releasing(p, s)
  /\ Bookings

\* p books a slot for s: that of a new client, or of the session it has just saved.
Books(p, s) == /\ s = task[p].id
               /\ \/ pc[p] = "fresh" /\ task[p].op = "new"
                  \/ pc[p] = "resv" /\ task[p].after # "release"

\* Reservations made for one session leave the others or sweep them.
LEMMA ReserveOthers ==
  ASSUME TypeOK, NEW s \in SID, NEW e, NEW o \in SID \ {s}
  PROVE  /\ Reserve(s, e)[o] = resv[o] \/ Reserve(s, e)[o] = 0
         /\ Release(s)[o] = resv[o]
         /\ \A old \in SID : \/ MoveReservation(old, s, e)[o] = resv[o]
                             \/ MoveReservation(old, s, e)[o] = 0
<1>1. resv \in [SID -> Nat] /\ Swept \in [SID -> Nat] /\ (Swept[o] = resv[o] \/ Swept[o] = 0)
  BY DEF Swept, TypeOK
<1>2. Reserve(s, e)[o] = resv[o] \/ Reserve(s, e)[o] = 0
  BY <1>1 DEF Reserve
<1>3. Release(s)[o] = resv[o]
  BY <1>1 DEF Release
<1>4. \A old \in SID : \/ MoveReservation(old, s, e)[o] = resv[o]
                       \/ MoveReservation(old, s, e)[o] = 0
  BY <1>1 DEF MoveReservation
<1> QED BY <1>2, <1>3, <1>4

\* A slot is taken or extended only by the bookings of p, whatever fails.
LEMMA BookingEffect ==
  ASSUME Inv, NEW p \in Proc, Acts(p)
  PROVE  \A s \in SID : resv'[s] = resv[s] \/ resv'[s] = 0 \/ Books(p, s)
<1>0. TypeInv /\ TypeOK /\ resv \in [SID -> Nat]
  BY DEF Inv, TypeInv, TypeOK
<1>a. pc[p] # "idle" => task[p].id \in SID /\ task[p].sid \in SID
  BY <1>0 DEF TypeInv, WellFormed
<1>1. ASSUME SettleReservation(p)
      PROVE  \A s \in SID : resv'[s] = resv[s] \/ resv'[s] = 0 \/ Books(p, s)
  <2> DEFINE t == task[p]
  <2>1. /\ pc[p] = "resv" /\ t.id \in SID /\ t.sid \in SID
        /\ t.after \in {"renew", "exact", "release", "move"}
    BY <1>0, <1>1, <1>a DEF SettleReservation, TypeInv, WellFormed, Task
  <2>2. CASE t.after = "release"
    <3>1. resv' = Release(t.id)
      BY <1>1, <2>2 DEF SettleReservation
    <3> QED BY <1>0, <2>1, <3>1 DEF Release
  <2>3. CASE t.after # "release"
    <3>1. PICK e : \/ resv' = Reserve(t.id, e)
                   \/ resv' = MoveReservation(t.sid, t.id, e)
      BY <1>1, <2>1, <2>3 DEF SettleReservation
    <3>2. ASSUME NEW s \in SID \ {t.id} PROVE resv'[s] = resv[s] \/ resv'[s] = 0
      <4>1. /\ Reserve(t.id, e)[s] = resv[s] \/ Reserve(t.id, e)[s] = 0
            /\ \/ MoveReservation(t.sid, t.id, e)[s] = resv[s]
               \/ MoveReservation(t.sid, t.id, e)[s] = 0
        BY <1>0, <2>1, ReserveOthers
      <4> QED BY <3>1, <4>1
    <3> QED BY <2>1, <2>3, <3>2 DEF Books
  <2> QED BY <2>2, <2>3
<1>2. ASSUME HandleNewClient(p) \/ RefuseNewClient(p) \/ ReserveFails(p)
      PROVE  \A s \in SID : resv'[s] = resv[s] \/ resv'[s] = 0 \/ Books(p, s)
  <2>1. /\ pc[p] = "fresh" /\ task[p].op = "new"
        /\ resv' = resv \/ \E e : resv' = Reserve(task[p].id, e)
    BY <1>2 DEF HandleNewClient, RefuseNewClient, ReserveFails
  <2> QED BY <1>0, <1>a, <2>1, ReserveOthers DEF Books
<1>3. ASSUME SaveNewClientFails(p) PROVE \A s \in SID : resv'[s] = resv[s] \/ resv'[s] = 0
  <2>1. task[p].id \in SID /\ (resv' = resv \/ resv' = Release(task[p].id))
    BY <1>3, <1>a DEF SaveNewClientFails
  <2> QED BY <1>0, <2>1 DEF Release
<1>4. ASSUME Entry(p), ~HandleNewClient(p), ~RefuseNewClient(p) PROVE UNCHANGED resv
  BY <1>4 DEF Entry, Resolve, ResolveNew, EvaluateOnly, EvaluateWaiting, SaveNewClient,
              Call, store
<1>5. ASSUME Decide(p) PROVE UNCHANGED resv
  BY <1>5 DEF Decide, handleWaitElapsed, Issue, ValidateExpired, ValidateRetry, ValidateExpel,
              ValidateSolved, RotateSession, RevokeSession, Transition, ReturnEarly, store
<1>6. ASSUME Write(p), ~SettleReservation(p) PROVE UNCHANGED resv
  BY <1>6 DEF Write, WriteChallenge, SaveSession, DeleteOld, Unlock, Return, store
<1>7. ASSUME Fail(p), ~ReserveFails(p), ~SaveNewClientFails(p) PROVE UNCHANGED resv
  BY <1>7 DEF Fail, ChallengeWriteFails, SaveFails, DeleteFails, ReservationFails, UnlockFails,
              Crash, Return, store
<1> QED BY <1>1, <1>2, <1>3, <1>4, <1>5, <1>6, <1>7 DEF Acts

\* Without faults, a slot is released when due.
LEMMA SlotEffect ==
  ASSUME Inv, Faults = {}, NEW p \in Proc, Acts(p)
  PROVE  /\ \A s \in SID : Releasing(p, s) => resv'[s] = 0
         /\ pc[p] = "save" /\ task[p].after = "release" => pc'[p] = "resv" /\ task'[p] = task[p]
<1>0. TypeInv /\ TypeOK /\ resv \in [SID -> Nat] /\ ~Fail(p)
  BY DEF Inv, TypeInv, TypeOK, Fail, ChallengeWriteFails, SaveFails, DeleteFails,
         ReservationFails, ReserveFails, SaveNewClientFails, UnlockFails, Crash
<1>1. ASSUME pc[p] \in {"save", "resv"} PROVE SaveSession(p) \/ SettleReservation(p)
  BY <1>0, <1>1
  DEF Acts, Entry, Decide, Write, Resolve, ResolveNew, EvaluateOnly, EvaluateWaiting,
      HandleNewClient, RefuseNewClient, SaveNewClient, Call, Holding, Validating,
      handleWaitElapsed, Issue, ValidateExpired, ValidateRetry, ValidateExpel, ValidateSolved,
      RotateSession, RevokeSession, Transition, ReturnEarly, WriteChallenge, DeleteOld, Unlock,
      Return
<1>2. ASSUME pc[p] = "save", task[p].after = "release"
      PROVE  pc'[p] = "resv" /\ task'[p] = task[p]
  <2>1. SaveSession(p)
    BY <1>1, <1>2 DEF SettleReservation
  <2>2. Become(p, "resv", task[p])
    BY <1>2, <2>1 DEF SaveSession, Goto
  <2> QED BY <1>0, <2>2, Others
<1>3. ASSUME NEW s \in SID, Releasing(p, s) PROVE resv'[s] = 0
  <2>1. SettleReservation(p)
    BY <1>1, <1>3 DEF Releasing, SaveSession
  <2>2. resv' = Release(s)
    BY <1>3, <2>1 DEF SettleReservation, Releasing
  <2> QED BY <1>0, <2>2 DEF Release
<1> QED BY <1>2, <1>3

\* A step of a call keeps the bookings in order, whatever fails,
LEMMA ActBookings ==
  ASSUME Inv, TypeInv', Bookings, NEW p \in Proc, Acts(p) PROVE Bookings'
<1>0. TypeInv /\ TypeOK /\ now \in Nat \ {0} /\ sess \in [SID -> Session] /\ task \in [Proc -> Task]
  BY DEF Inv, TypeInv, TypeOK
<1>1. PICK stage, u : Become(p, stage, u) /\ Progress(p, stage, u)
  BY <1>0, Progresses
<1>2. /\ pc'[p] = stage /\ task'[p] = u
      /\ \A q \in Proc \ {p} : pc'[q] = pc[q] /\ task'[q] = task[q]
      /\ \A q \in Proc : pc[q] # "idle" => task[q].id \in SID /\ task[q].sid \in SID
  BY <1>0, <1>1, Others
<1>3. \A s \in SID : sess'[s].state = sess[s].state \/ Writes(p, s)
  BY <1>0, SessionEffect, GoneFields
<1>4. \A s \in SID : Writes(p, s) => sess'[s].state = task[p].rec.state
  <2>1. task[p].rec \in Session
    BY <1>0 DEF Task
  <2> QED BY <2>1 DEF Writes, Stored, Session
<1>5. ASSUME NEW q \in Proc \ {p}
      PROVE  /\ pc'[q] = "reserved" => task'[q].rec.state # "REVOKED"
             /\ Saving(q)' \/ pc'[q] \in {"del", "resv"} =>
                  task'[q].after = "release" \/ task'[q].rec.state # "REVOKED"
             /\ pc'[q] \in {"del", "resv"} => sess'[task'[q].id].state = task'[q].rec.state
  <2>1. pc[q] \in {"del", "resv"} => ~Writes(p, task[q].id)
    BY WriteTarget DEF Writes
  <2> QED BY <1>2, <1>3, <2>1 DEF Bookings, Saving
<1>6. stage = "reserved" => u.rec.state # "REVOKED"
  <2>1. ASSUME stage = "reserved" PROVE u.rec = Admit(task[p].rec, now)
    BY <1>1, <2>1 DEF Progress, Decision
  <2>2. task[p].rec \in Session
    BY <1>0 DEF Task
  <2> QED BY <1>0, <2>1, <2>2, AdmitType
<1>7. ASSUME Saving(p)' \/ stage \in {"del", "resv"}
      PROVE  u.after = "release" \/ u.rec.state # "REVOKED"
  <2>1. CASE Decision(p, stage, u)
    <3> DEFINE r == sess[u.sid]
    <3>1. r \in Session
      BY <1>0, <1>2, <2>1 DEF Decision
    <3>2. CASE Waited(u)
      BY <3>1, <3>2 DEF Waited, LeaveWaitRoom, Session
    <3>3. CASE Rotated(u)
      BY <3>1, <3>3 DEF Rotated, Successor, Session
    <3>4. CASE Revoking(u)
      BY <3>4 DEF Revoking
    <3>5. CASE Moved(u)
      BY <3>1, <3>5 DEF Moved, Transitioned, Session
    <3>6. CASE Issued(u)
      BY <3>1, <3>6 DEF Issued, Issuable, Session
    <3>7. CASE stage = "chal" /\ Answered(u)
      <4>1. u.ttl > 0
        BY <1>2, <1>7, <3>7 DEF Saving
      <4>2. r.state = "CHALLENGE_REQUIRED" /\ (u.rec = Expelled(r, now) \/ u.rec = Solved(r, now))
        BY <3>7, <4>1 DEF Answered, MayAnswer
      <4> QED BY <3>1, <4>2 DEF Expelled, Solved, Session
    <3> QED BY <2>1, <3>2, <3>3, <3>4, <3>5, <3>6, <3>7 DEF Decision
  <2>2. CASE ~Decision(p, stage, u) /\ stage # "reserved"
    <3>1. u = task[p] /\ (Saving(p) \/ pc[p] = "del")
      BY <1>1, <1>2, <1>7, <2>2 DEF Progress, Saving
    <3> QED BY <3>1 DEF Bookings
  <2> QED BY <1>6, <2>1, <2>2
<1>8. ASSUME stage \in {"del", "resv"} PROVE sess'[u.id].state = u.rec.state
  <2>1. u = task[p] /\ (Writes(p, u.id) \/ pc[p] = "del")
    BY <1>1, <1>8 DEF Progress, Decision
  <2>2. CASE Writes(p, u.id)
    BY <1>2, <1>4, <2>1, <2>2 DEF Writes
  <2>3. CASE pc[p] = "del"
    BY <1>2, <1>3, <2>1, <2>3 DEF Writes, Bookings
  <2> QED BY <2>1, <2>2, <2>3
<1> QED BY <1>2, <1>5, <1>6, <1>7, <1>8 DEF Bookings

\* and where nothing does, the slots.
LEMMA ActSlots ==
  ASSUME Inv, TypeInv', Slots, Faults = {}, NEW p \in Proc, Acts(p) PROVE Slots'
<1>0. TypeInv /\ TypeOK /\ task \in [Proc -> Task] /\ Bookings
  BY DEF Inv, TypeInv, TypeOK, Slots
<1>1. PICK stage, u : Become(p, stage, u) /\ Progress(p, stage, u)
  BY <1>0, Progresses
<1>2. \A q \in Proc \ {p} : pc'[q] = pc[q] /\ task'[q] = task[q]
  BY <1>0, <1>1, Others
<1>3. \A s \in SID : sess'[s].state = sess[s].state \/ Writes(p, s)
  BY <1>0, SessionEffect, GoneFields
<1>4. \A s \in SID : Writes(p, s) => sess'[s].state = task[p].rec.state
  <2>1. task[p].rec \in Session
    BY <1>0 DEF Task
  <2> QED BY <2>1 DEF Writes, Stored, Session
<1>5. /\ \A s \in SID : resv'[s] = resv[s] \/ resv'[s] = 0 \/ Books(p, s)
      /\ \A s \in SID : Releasing(p, s) => resv'[s] = 0
      /\ pc[p] = "save" /\ task[p].after = "release" => pc'[p] = "resv" /\ task'[p] = task[p]
  BY BookingEffect, SlotEffect
<1>6. ASSUME NEW s \in SID, sess'[s].state = "REVOKED"
      PROVE  resv'[s] = 0 \/ \E q \in Proc : Releasing(q, s)'
  <2>1. CASE Writes(p, s)
    <3>1. pc[p] = "save" /\ task[p].after = "release" /\ s = task[p].id
      BY <1>0, <1>4, <1>6, <2>1 DEF Writes, Bookings, Saving
    <3>2. Releasing(p, s)'
      BY <1>5, <3>1 DEF Releasing
    <3> QED BY <3>2
  <2>2. CASE sess[s].state = "REVOKED" /\ resv[s] = 0
    <3>1. ~Books(p, s)
      BY <1>0, <2>2 DEF Books, Bookings, Inv, Births, Newborn
    <3> QED BY <1>5, <2>2, <3>1
  <2>3. ASSUME NEW q \in Proc, Releasing(q, s)
        PROVE  resv'[s] = 0 \/ \E o \in Proc : Releasing(o, s)'
    <3>1. CASE q = p
      BY <1>5, <2>3, <3>1
    <3>2. CASE q # p
      <4>1. Releasing(q, s)'
        BY <1>2, <2>3, <3>2 DEF Releasing
      <4> QED BY <4>1
    <3> QED BY <3>1, <3>2
  <2> QED BY <1>3, <1>6, <2>1, <2>2, <2>3 DEF Slots
<1>7. Bookings'
  BY <1>0, ActBookings
<1> QED BY <1>6, <1>7 DEF Slots

\* So does every step.
LEMMA NextBookings ==
  ASSUME Inv, TypeInv', Bookings, [Next]_vars PROVE Bookings'
<1>1. CASE Rests
  <2>1. \A s \in SID : sess'[s].state = sess[s].state
    BY <1>1, GoneFields DEF Rests, Inv, TypeInv
  <2>2. UNCHANGED <<pc, task>> /\ \A q \in Proc : Saving(q)' <=> Saving(q)
    BY <1>1 DEF Rests, Saving
  <2>3. \A q \in Proc : pc[q] \in {"del", "resv"} => task[q].id \in SID
    BY DEF Inv, TypeInv, WellFormed
  <2> QED BY <2>1, <2>2, <2>3 DEF Bookings
<1> QED BY <1>1, Steps, ActBookings DEF Inv

LEMMA NextSlots ==
  ASSUME Inv, TypeInv', Slots, Faults = {}, [Next]_vars PROVE Slots'
<1>1. CASE Rests
  <2>1. \A s \in SID : sess'[s].state = sess[s].state /\ (resv[s] = 0 => resv'[s] = 0)
    BY <1>1, GoneFields DEF Rests, Inv, TypeInv
  <2>2. /\ UNCHANGED <<pc, task>>
        /\ \A q \in Proc, s \in SID : Releasing(q, s)' <=> Releasing(q, s)
    BY <1>1 DEF Rests, Releasing
  <2>3. Bookings'
    BY NextBookings DEF Slots
  <2> QED BY <2>1, <2>2, <2>3 DEF Slots
<1> QED BY <1>1, Steps, ActSlots DEF Inv

\* The slots are in order throughout.
LEMMA SlotsAlways ==
  ASSUME Faults = {} PROVE Spec => []Slots
<1>1. Init => Slots
  BY DEF Init, Slots, Bookings, Saving, NoSession
<1>2. Inv /\ Inv' /\ Slots /\ [Next]_vars => Slots'
  BY NextSlots DEF Inv
<1> QED BY <1>1, <1>2, InvAlways, PTL DEF Spec

\* Whatever store call fails and wherever a process dies, nobody extends the slot of a
\* revoked session or takes it again: a slot that the revocation could not release runs
\* out when it was going to (RevokeSession, Transition and every call that books).
THEOREM RevokedSlotsRunOut ==
  Spec => RevokedSlotRunsOut
<1>1. ASSUME Inv, TypeInv', Bookings, [Next]_vars
      PROVE  [\A s \in SID : sess[s].state = "REVOKED" => resv'[s] <= resv[s]]_vars
  <2> SUFFICES ASSUME NEW s \in SID, sess[s].state = "REVOKED" PROVE resv'[s] <= resv[s]
    OBVIOUS
  <2>1. TypeInv /\ resv[s] \in Nat
    BY <1>1 DEF Inv, TypeInv, TypeOK
  <2>2. resv'[s] = resv[s] \/ resv'[s] = 0
    <3>1. CASE Rests
      BY <3>1 DEF Rests
    <3>2. ASSUME NEW p \in Proc, Acts(p) PROVE resv'[s] = resv[s] \/ resv'[s] = 0
      <4>1. ~Books(p, s)
        BY <1>1 DEF Books, Bookings, Inv, Births, Newborn
      <4> QED BY <1>1, <3>2, <4>1, BookingEffect
    <3> QED BY <1>1, <2>1, <3>1, <3>2, Steps
  <2> QED BY <2>1, <2>2
<1>2. Init => Bookings
  BY DEF Init, Bookings, Saving, NoSession
<1>3. Inv /\ Inv' /\ Bookings /\ [Next]_vars => Bookings'
  BY NextBookings DEF Inv
<1>4. Inv => TypeInv
  BY DEF Inv
<1> QED
  BY <1>1, <1>2, <1>3, <1>4, InvAlways, PTL DEF Spec, RevokedSlotRunsOut

\* Where no store call fails and no process dies, a revoked session holds no capacity
\* slot once the call that revoked it has returned (RevokeSession, Transition).
THEOREM RevokedSlotFreed ==
  ASSUME Faults = {} PROVE Spec => []RevokedFreesSlot
<1>1. ASSUME Inv, Slots PROVE RevokedFreesSlot
  <2> SUFFICES ASSUME NEW s \in SID, sess[s].state = "REVOKED", lock[s] = Free PROVE resv[s] = 0
    BY DEF RevokedFreesSlot
  <2>1. ASSUME NEW p \in Proc, Releasing(p, s) PROVE FALSE
    <3>1. task[p].sid = s /\ lock[s] = p
      BY <1>1, <2>1 DEF Releasing, Inv, TypeInv, WellFormed, LockHeld, Locked
    <3> QED BY <3>1, ProcAssumption
  <2> QED BY <1>1, <2>1 DEF Slots
<1> QED BY <1>1, InvAlways, SlotsAlways, PTL

-----------------------------------------------------------------------------
(* Guesses.  The record names the challenge its session may answer; the    *)
(* attempts counted in the challenge cover the answers ruled on.           *)

\* Session s may answer c, and c has been ruled on no more often than it counts.
Bound(c, s) == chal[c].sid = s /\ (chal[c].until = 0 \/ judged[c] <= chal[c].attempts)

\* p works on the challenge its locals name.
Ruling(p) == pc[p] \in {"chal", "save"} /\ task[p].chOp # "none"

\* p is about to publish a challenge nobody has seen.
Issuing(p) == Ruling(p) /\ pc[p] = "chal" /\ task[p].op = "issue"

\* The books of all challenges,
Ledger ==
  \A c \in CID : /\ judged[c] <= MaxAttempts /\ chal[c].attempts < MaxAttempts
                 /\ chal[c].sid = NoSID => judged[c] = 0

\* of those that sessions name,
Named ==
  \A s \in SID : sess[s].until # 0 /\ sess[s].challenge \in CID => Bound(sess[s].challenge, s)

\* of those in records about to be saved,
Naming(p) ==
  /\ pc[p] \in {"fresh", "reserved"} /\ task[p].op = "new" => task[p].rec.challenge = NoCID
  /\ pc[p] = "save" /\ task[p].rec.challenge \in CID =>
       Bound(task[p].rec.challenge, task[p].sid) /\ task[p].after # "move"

\* and of those being issued or answered.
Handling(p) ==
  /\ pc[p] = "chal" => Ruling(p)
  /\ pc[p] = "save" /\ task[p].op = "validate" => Ruling(p) /\ task[p].chOp # "set"
  /\ Ruling(p) =>
       /\ task[p].cid \in CID /\ task[p].after # "move"
       /\ task[p].ch.sid = task[p].sid /\ task[p].ch.attempts < MaxAttempts
       /\ task[p].op \in {"issue", "validate"}
       /\ task[p].op = "issue" => task[p].chOp = "set"
       /\ ~Issuing(p) => chal[task[p].cid].sid = task[p].sid
       /\ task[p].op = "validate" /\ task[p].chOp # "set" =>
            /\ judged[task[p].cid] <= task[p].ch.attempts
            /\ task[p].ttl > 0 => task[p].rec.challenge = NoCID
       /\ task[p].op = "validate" /\ task[p].chOp = "set" =>
            judged[task[p].cid] < task[p].ch.attempts /\ task[p].ttl = 0
  /\ Issuing(p) =>
       /\ chal[task[p].cid].sid = NoSID /\ task[p].rec.challenge = task[p].cid
       /\ \A q \in Proc \ {p} : Ruling(q) => task[q].cid # task[p].cid

Guesses == Ledger /\ Named /\ \A p \in Proc : Naming(p) /\ Handling(p)

\* Whoever touches a challenge is handling it.
LEMMA TouchIsRuling ==
  ASSUME Guesses, NEW p \in Proc, NEW c, Keeps(p, c) \/ Rules(p, c)
  PROVE  Ruling(p) /\ c = task[p].cid /\ (Rules(p, c) => ~Issuing(p))
  BY DEF Guesses, Handling, Keeps, Rules, Ruling, Issuing

\* Nobody else touches the challenge that a call handles, or that its session names.
LEMMA Foreign ==
  ASSUME Inv, Guesses, NEW p \in Proc, NEW q \in Proc \ {p}, pc[q] \in Locked, NEW c \in CID,
         (Ruling(q) /\ c = task[q].cid) \/ chal[c].sid = task[q].sid
  PROVE  ~Keeps(p, c) /\ ~Rules(p, c)
<1>1. ASSUME Ruling(p), c = task[p].cid PROVE FALSE
  <2>1. pc[p] \in Locked /\ task[p].sid # task[q].sid /\ task[q].sid # NoSID
    BY <1>1, IdAssumption DEF Ruling, Locked, Inv, LockHeld, TypeInv, WellFormed
  <2>2. CASE chal[c].sid = task[q].sid
    BY <1>1, <2>1, <2>2 DEF Guesses, Handling
  <2>3. CASE Ruling(q) /\ c = task[q].cid
    <3>0. Handling(p) /\ Handling(q) /\ p \in Proc \ {q}
      BY DEF Guesses
    <3>1. ~Issuing(p)
      BY <1>1, <2>3, <3>0 DEF Handling
    <3>2. ~Issuing(q)
      BY <1>1, <2>3, <3>0 DEF Handling
    <3>3. chal[c].sid = task[p].sid
      BY <1>1, <3>0, <3>1 DEF Handling
    <3>4. chal[c].sid = task[q].sid
      BY <2>3, <3>0, <3>2 DEF Handling
    <3> QED BY <2>1, <3>3, <3>4
  <2> QED BY <2>2, <2>3
<1> QED BY <1>1, TouchIsRuling

\* The fields of a challenge that is written.
LEMMA KeptFields ==
  ASSUME TypeInv, now \in Nat, NEW p \in Proc, NEW c, Keeps(p, c)
  PROVE  chal'[c].sid = task[p].ch.sid /\ chal'[c].attempts = task[p].ch.attempts
  BY DEF Keeps, TypeInv, TypeOK, Task, StoredChallenge

\* A step of a call keeps the books of all challenges.
LEMMA ActLedger ==
  ASSUME Inv, Guesses, MaxAttempts > 0, NEW p \in Proc, Acts(p) PROVE Ledger'
<1>0. /\ TypeInv /\ TypeOK /\ now \in Nat /\ chal \in [CID -> StoredChallenge]
      /\ judged \in [CID -> Nat] /\ task[p] \in Task /\ MaxAttempts \in Nat
  BY ConfigAssumption DEF Inv, TypeInv, TypeOK, ValidConfig
<1> SUFFICES ASSUME NEW c \in CID
             PROVE  /\ judged'[c] <= MaxAttempts /\ chal'[c].attempts < MaxAttempts
                    /\ chal'[c].sid = NoSID => judged'[c] = 0
  BY DEF Ledger
<1>1. /\ judged[c] \in Nat /\ judged[c] <= MaxAttempts /\ chal[c].attempts < MaxAttempts
      /\ chal[c].sid = NoSID => judged[c] = 0
  BY <1>0 DEF Guesses, Ledger
<1>2. ASSUME Keeps(p, c) \/ Rules(p, c)
      PROVE  /\ Ruling(p) /\ c = task[p].cid /\ task[p].ch.sid = task[p].sid
             /\ task[p].sid # NoSID /\ task[p].ch.attempts \in Nat
             /\ task[p].ch.attempts < MaxAttempts
             /\ Rules(p, c) => judged[c] <= task[p].ch.attempts /\ chal[c].sid = task[p].sid
  <2>1. Ruling(p) /\ c = task[p].cid /\ (Rules(p, c) => ~Issuing(p) /\ task[p].op = "validate")
    BY <1>2, TouchIsRuling DEF Rules
  <2>2. task[p].sid # NoSID /\ task[p].ch.attempts \in Nat
    BY <1>0, <2>1, IdAssumption DEF Ruling, TypeInv, WellFormed, Task, StoredChallenge
  <2> QED BY <1>0, <1>1, <2>1, <2>2 DEF Guesses, Handling
<1>3. /\ chal'[c].attempts < MaxAttempts
      /\ chal'[c].sid = NoSID => chal[c].sid = NoSID /\ ~Keeps(p, c)
  <2>1. CASE Keeps(p, c)
    BY <1>0, <1>2, <2>1, KeptFields
  <2>2. CASE ~Keeps(p, c)
    BY <1>0, <1>1, <2>2, ChallengeEffect, GoneFields
  <2> QED BY <2>1, <2>2
<1>4. CASE judged'[c] = judged[c]
  BY <1>1, <1>3, <1>4
<1>5. CASE Rules(p, c)
  <2>1. judged'[c] = judged[c] + 1
    BY <1>5 DEF Rules
  <2> QED BY <1>0, <1>1, <1>2, <1>3, <1>5, <2>1
<1> QED BY <1>0, <1>4, <1>5, ChallengeEffect

\* A challenge bound to the session of p stays bound when p touches it, until p has
\* saved the record that no longer names it.
LEMMA OwnBound ==
  ASSUME Inv, Guesses, NEW p \in Proc, Acts(p), NEW c \in CID, NEW s \in SID, Bound(c, s),
         ~(Rules(p, c) /\ pc[p] = "save")
  PROVE  Bound(c, s)'
<1>0. /\ TypeInv /\ TypeOK /\ now \in Nat /\ chal \in [CID -> StoredChallenge] /\ s # NoSID
      /\ judged \in [CID -> Nat] /\ task[p] \in Task
  BY IdAssumption DEF Inv, TypeInv, TypeOK
<1>1. CASE Keeps(p, c)
  <2>1. Ruling(p) /\ c = task[p].cid /\ ~Issuing(p)
    BY <1>0, <1>1, TouchIsRuling DEF Guesses, Handling, Bound
  <2>2. task[p].ch.sid = task[p].sid /\ chal[c].sid = task[p].sid
    BY <2>1 DEF Guesses, Handling
  <2>3. chal'[c].sid = s /\ chal'[c].attempts = task[p].ch.attempts
    BY <1>0, <1>1, <2>2, KeptFields DEF Bound
  <2>4. task[p].op = "validate"
    <3>1. CASE pc[p] = "chal"
      BY <2>1, <3>1 DEF Guesses, Handling, Issuing
    <3>2. CASE pc[p] = "save"
      BY <1>1, <2>1, <3>2 DEF Keeps, Guesses, Handling
    <3> QED BY <1>1, <3>1, <3>2 DEF Keeps
  <2>5. task[p].ch.attempts \in Nat /\ judged[c] \in Nat
    BY <1>0 DEF Task, StoredChallenge
  <2>6. judged'[c] <= task[p].ch.attempts
    <3>1. CASE pc[p] = "chal" /\ task[p].chOp = "set"
      <4>1. judged[c] < task[p].ch.attempts
        BY <2>1, <2>4, <3>1 DEF Guesses, Handling
      <4>2. judged'[c] = judged[c] \/ judged'[c] = judged[c] + 1
        BY <1>0, ChallengeEffect DEF Rules
      <4> QED BY <2>5, <4>1, <4>2
    <3>2. CASE pc[p] = "save" /\ task[p].chOp = "consume" /\ judged' = judged
      BY <2>1, <2>4, <3>2 DEF Guesses, Handling
    <3> QED BY <1>1, <3>1, <3>2 DEF Keeps
  <2> QED BY <2>3, <2>6 DEF Bound
<1>2. CASE ~Keeps(p, c)
  <2>1. judged'[c] = judged[c]
    BY <1>0, <1>2, ChallengeEffect DEF Rules
  <2>2. chal'[c] = chal[c] \/ chal'[c] = GoneChallenge(c)
    BY <1>0, <1>2, ChallengeEffect
  <2> QED BY <1>0, <2>1, <2>2, GoneFields DEF Bound
<1> QED BY <1>1, <1>2

\* p rules on its last answer with a record that names no challenge.
LEMMA LastRuling ==
  ASSUME Inv, Guesses, NEW p \in Proc, NEW c, Rules(p, c), pc[p] = "save"
  PROVE  /\ task[p].rec.challenge = NoCID /\ task[p].id = task[p].sid
         /\ chal[c].sid = task[p].sid /\ Writes(p, task[p].sid)
<1>1. /\ Ruling(p) /\ c = task[p].cid /\ ~Issuing(p) /\ task[p].op = "validate"
      /\ Writes(p, task[p].id)
  BY TouchIsRuling DEF Rules
<1>2. task[p].chOp # "set" /\ task[p].after # "move"
  BY <1>1 DEF Guesses, Handling
<1>3. task[p].ttl > 0 /\ task[p].id = task[p].sid
  BY <1>2 DEF Inv, TypeInv, WellFormed
<1> QED BY <1>1, <1>2, <1>3 DEF Guesses, Handling

\* A step of a call keeps the books of the challenges that sessions name.
LEMMA ActNamed ==
  ASSUME Inv, Guesses, NEW p \in Proc, Acts(p) PROVE Named'
<1>0. /\ TypeInv /\ TypeOK /\ now \in Nat /\ sess \in [SID -> Session] /\ task[p] \in Task
  BY DEF Inv, TypeInv, TypeOK
<1> SUFFICES ASSUME NEW s \in SID, NEW c \in CID, sess'[s].until # 0, sess'[s].challenge = c
             PROVE  Bound(c, s)'
  BY DEF Named, Bound
<1>a. \A r \in Session, ttl \in Nat : Stored(r, ttl).challenge = r.challenge
  BY DEF Stored, Session
<1>b. ASSUME Writes(p, s)
      PROVE  /\ sess'[s].challenge = task[p].rec.challenge /\ pc[p] = "save"
             /\ s = task[p].sid /\ Bound(c, s)
  <2>1. /\ pc[p] \in {"reserved", "save"} /\ s = task[p].id
        /\ sess'[s] = Stored(task[p].rec, task[p].ttl)
    BY <1>b DEF Writes
  <2>2. task[p].rec \in Session /\ task[p].ttl \in Nat /\ (pc[p] = "reserved" => task[p].op = "new")
    BY <1>0, <2>1 DEF TypeInv, WellFormed, Task
  <2>3. sess'[s].challenge = task[p].rec.challenge
    BY <1>a, <2>1, <2>2
  <2>4. pc[p] = "save"
    BY <2>1, <2>2, <2>3, IdAssumption DEF Guesses, Naming
  <2>5. Bound(c, task[p].sid) /\ task[p].after # "move"
    BY <2>3, <2>4 DEF Guesses, Naming
  <2>6. task[p].id = task[p].sid
    BY <1>0, <2>4, <2>5 DEF TypeInv, WellFormed
  <2> QED BY <2>1, <2>3, <2>4, <2>5, <2>6
<1>1. Bound(c, s)
  <2>1. CASE sess'[s] = sess[s]
    BY <2>1 DEF Guesses, Named
  <2>2. CASE Writes(p, s)
    BY <1>b, <2>2
  <2> QED BY <1>0, <2>1, <2>2, SessionEffect, GoneFields
<1>2. ~(Rules(p, c) /\ pc[p] = "save")
  <2>1. ASSUME Rules(p, c), pc[p] = "save" PROVE FALSE
    <3>1. /\ task[p].rec.challenge = NoCID /\ chal[c].sid = task[p].sid
          /\ Writes(p, task[p].sid)
      BY <2>1, LastRuling
    <3>2. s = task[p].sid
      BY <1>1, <3>1 DEF Bound
    <3> QED BY <1>b, <3>1, <3>2, IdAssumption
  <2> QED BY <2>1
<1> QED BY <1>1, <1>2, OwnBound

\* The challenge p takes in hand by a decision: fresh, or bound to its session.
LEMMA DecidedChallenge ==
  ASSUME Inv, Guesses, NEW p \in Proc, NEW stage, NEW u, Decision(p, stage, u), u.chOp # "none"
  PROVE  /\ stage = "chal" /\ u.cid \in CID /\ chal' = chal /\ judged' = judged
         /\ \/ Issued(u) /\ chal[u.cid].sid = NoSID /\ \A q \in Proc : task[q].cid # u.cid
            \/ Answered(u) /\ chal[u.cid].sid = u.sid /\ judged[u.cid] <= chal[u.cid].attempts
<1>0. TypeOK /\ pc[p] = "held" /\ u.sid = task[p].sid /\ u.sid \in SID
  BY DEF Decision, Inv, TypeInv, WellFormed
<1>1. stage = "chal" /\ (Issued(u) \/ Answered(u)) /\ chal' = chal /\ judged' = judged
  BY DEF Decision, Rotated, Waited, Revoking, Moved, store
<1>2. CASE Issued(u)
  BY <1>1, <1>2 DEF Issued, FreshCID
<1>3. CASE Answered(u)
  <2>1. u.cid = sess[u.sid].challenge /\ HasChallenge(u.cid)
    BY <1>3 DEF Answered, MayAnswer
  <2>2. u.cid \in CID /\ chal[u.cid].until # 0
    BY <1>0, <2>1 DEF HasChallenge, TypeOK, StoredChallenge
  <2>3. sess[u.sid].until # 0
    BY <1>0 DEF Decision, HasSession, TypeOK, Session
  <2>4. Bound(u.cid, u.sid)
    BY <1>0, <2>1, <2>2, <2>3 DEF Guesses, Named
  <2> QED BY <1>1, <1>3, <2>2, <2>4 DEF Bound
<1> QED BY <1>1, <1>2, <1>3

\* A step of p leaves the books of the others in order.
LEMMA OthersGuesses ==
  ASSUME Inv, Guesses, NEW p \in Proc, Acts(p), NEW q \in Proc \ {p}
  PROVE  Naming(q)' /\ Handling(q)'
<1>0. TypeInv /\ TypeOK /\ Naming(q) /\ Handling(q)
  BY DEF Inv, TypeInv, Guesses
<1>1. PICK stage, u : Become(p, stage, u) /\ Progress(p, stage, u)
  BY <1>0, Progresses
<1>2. /\ pc'[p] = stage /\ task'[p] = u
      /\ \A o \in Proc \ {p} : pc'[o] = pc[o] /\ task'[o] = task[o]
      /\ \A o \in Proc : pc[o] # "idle" => task[o].id \in SID /\ task[o].sid \in SID
  BY <1>0, <1>1, Others
<1>3. ASSUME NEW c \in CID, pc[q] \in Locked,
             (Ruling(q) /\ c = task[q].cid) \/ chal[c].sid = task[q].sid
      PROVE  /\ judged'[c] = judged[c] /\ chal'[c].sid = chal[c].sid
             /\ chal'[c] = chal[c] \/ chal'[c].until = 0
  <2>1. ~Keeps(p, c) /\ ~Rules(p, c)
    BY <1>3, Foreign
  <2> QED BY <1>0, <2>1, ChallengeEffect, GoneFields
<1>4. Naming(q)'
  <2>1. ASSUME pc[q] = "save", task[q].rec.challenge \in CID
        PROVE  Bound(task[q].rec.challenge, task[q].sid)'
    <3>1. Bound(task[q].rec.challenge, task[q].sid)
      BY <1>0, <2>1 DEF Naming
    <3>2. PICK c \in CID : c = task[q].rec.challenge
      BY <2>1
    <3>3. /\ judged'[c] = judged[c] /\ chal'[c].sid = chal[c].sid
          /\ chal'[c] = chal[c] \/ chal'[c].until = 0
      BY <1>3, <2>1, <3>1, <3>2 DEF Bound, Locked
    <3> QED BY <1>2, <3>1, <3>2, <3>3 DEF Bound
  <2> QED BY <1>0, <1>2, <2>1 DEF Naming, Bound
<1>5. Handling(q)'
  <2>1. /\ Ruling(q)' <=> Ruling(q)
        /\ Issuing(q)' <=> Issuing(q)
    BY <1>2 DEF Ruling, Issuing
  <2>2. Ruling(q) => /\ judged'[task[q].cid] = judged[task[q].cid]
                     /\ chal'[task[q].cid].sid = chal[task[q].cid].sid
    BY <1>0, <1>3 DEF Ruling, Locked, Handling
  <2>3. ASSUME Issuing(q), NEW o \in Proc \ {q}, Ruling(o)' PROVE task'[o].cid # task[q].cid
    <3>1. Ruling(q) /\ chal[task[q].cid].sid = NoSID
      BY <1>0, <2>3 DEF Handling, Issuing
    <3>2. CASE Ruling(o) /\ task'[o].cid = task[o].cid
      BY <1>0, <2>3, <3>2 DEF Handling
    <3>3. CASE o # p
      <4>1. Ruling(o) /\ task'[o] = task[o]
        BY <1>2, <2>3, <3>3 DEF Ruling
      <4> QED BY <3>2, <4>1
    <3>4. CASE o = p /\ Decision(p, stage, u)
      <4>1. u.chOp # "none"
        BY <1>2, <2>3, <3>4 DEF Ruling
      <4>2. \/ \A x \in Proc : task[x].cid # u.cid
            \/ chal[u.cid].sid = u.sid
        BY <3>4, <4>1, DecidedChallenge
      <4>3. u.sid \in SID
        BY <1>2, <3>4 DEF Decision
      <4> QED BY <1>2, <3>1, <3>4, <4>2, <4>3, IdAssumption
    <3>5. CASE o = p /\ ~Decision(p, stage, u)
      <4>1. pc[p] = "chal" /\ u = task[p]
        BY <1>1, <1>2, <2>3, <3>5 DEF Progress, Ruling, Decision
      <4>2. Ruling(p)
        BY <4>1 DEF Guesses, Handling
      <4> QED BY <1>2, <3>2, <3>5, <4>1, <4>2
    <3> QED BY <3>3, <3>4, <3>5
  <2>4. Issuing(q) => \A o \in Proc \ {q} : Ruling(o)' => task'[o].cid # task[q].cid
    BY <2>3
  <2>5. pc'[q] = pc[q] /\ task'[q] = task[q]
    BY <1>2
  <2>6. Issuing(q) => Ruling(q)
    BY DEF Issuing
  <2> QED BY <1>0, <2>1, <2>2, <2>4, <2>5, <2>6 DEF Handling
<1> QED BY <1>4, <1>5

\* A decision of p is in order.
LEMMA DecidedGuesses ==
  ASSUME Inv, TypeInv', Guesses, MaxAttempts > 0, NEW p \in Proc, Acts(p), NEW stage, NEW u,
         Become(p, stage, u), Decision(p, stage, u)
  PROVE  Naming(p)' /\ Handling(p)'
<1>0. /\ TypeInv /\ TypeOK /\ now \in Nat /\ sess \in [SID -> Session]
      /\ chal \in [CID -> StoredChallenge] /\ judged \in [CID -> Nat] /\ MaxAttempts \in Nat
  BY ConfigAssumption DEF Inv, TypeInv, TypeOK, ValidConfig
<1>1. /\ pc'[p] = stage /\ task'[p] = u
      /\ \A o \in Proc \ {p} : pc'[o] = pc[o] /\ task'[o] = task[o]
  BY <1>0, Others
<1> DEFINE r == sess[u.sid]
<1>2. u.sid \in SID /\ r \in Session /\ r.until # 0 /\ stage \in {"chal", "save"} /\ chal' = chal /\ judged' = judged
  <2>1. u.sid = task[p].sid /\ pc[p] = "held" /\ HasSession(u.sid) /\ stage \in {"chal", "save"}
        /\ chal' = chal /\ judged' = judged
    BY DEF Decision, store
  <2>2. u.sid \in SID
    BY <1>0, <2>1 DEF TypeInv, WellFormed
  <2> QED BY <1>0, <2>1, <2>2 DEF HasSession, Session
<1>3. Naming(p)'
  <2>1. ASSUME stage = "save", u.rec.challenge \in CID
        PROVE  Bound(u.rec.challenge, u.sid)' /\ u.after # "move"
    <3>1. Rotated(u) \/ Waited(u) \/ Revoking(u) \/ Moved(u)
      BY <2>1 DEF Decision
    <3>2. CASE Rotated(u)
      <4>1. u.rec.challenge = NoCID
        BY <1>2, <3>2 DEF Rotated, Successor, Session
      <4> QED BY <2>1, <4>1, IdAssumption
    <3>3. CASE Waited(u) \/ Revoking(u) \/ Moved(u)
      <4>1. u.rec.challenge = r.challenge /\ u.after # "move"
        <5>1. CASE Waited(u)
          BY <1>2, <5>1 DEF Waited, LeaveWaitRoom, Session
        <5>2. CASE Revoking(u)
          BY <1>2, <5>2 DEF Revoking, Revoked, Session
        <5>3. CASE Moved(u)
          BY <1>2, <5>3 DEF Moved, Transitioned, Session
        <5> QED BY <3>3, <5>1, <5>2, <5>3
      <4>2. Bound(r.challenge, u.sid)
        BY <1>2, <2>1, <4>1 DEF Guesses, Named
      <4> QED BY <1>2, <4>1, <4>2 DEF Bound
    <3> QED BY <3>1, <3>2, <3>3
  <2> QED BY <1>1, <1>2, <2>1 DEF Naming, Bound
<1>4. Ruling(p)' <=> u.chOp # "none"
  BY <1>1, <1>2 DEF Ruling
<1>5. CASE u.chOp = "none"
  <2>1. stage = "save" /\ u.op # "validate"
    BY <1>5 DEF Decision, Rotated, Waited, Revoking, Moved, Issued, Answered
  <2>2. ~Issuing(p)'
    BY <1>4, <1>5 DEF Issuing
  <2> QED BY <1>1, <1>3, <1>4, <1>5, <2>1, <2>2 DEF Handling
<1>6. CASE u.chOp # "none"
  <2>0. /\ stage = "chal" /\ u.cid \in CID
        /\ \/ Issued(u) /\ chal[u.cid].sid = NoSID /\ \A q \in Proc : task[q].cid # u.cid
           \/ Answered(u) /\ chal[u.cid].sid = u.sid /\ judged[u.cid] <= chal[u.cid].attempts
    BY <1>6, DecidedChallenge
  <2>a. Issuing(p)' <=> u.op = "issue"
    BY <1>1, <1>4, <1>6, <2>0 DEF Issuing
  <2>1. CASE Issued(u) /\ chal[u.cid].sid = NoSID /\ \A q \in Proc : task[q].cid # u.cid
    <3>1. /\ u.op = "issue" /\ u.chOp = "set" /\ u.after = "none" /\ u.ch.sid = u.sid
          /\ u.ch.attempts = 0 /\ u.rec.challenge = u.cid
      BY <1>2, <2>1 DEF Issued, Session
    <3>2. \A q \in Proc \ {p} : task'[q].cid # u.cid
      BY <1>1, <2>1
    <3>3. Handling(p)'
      BY <1>0, <1>1, <1>2, <1>4, <1>6, <2>0, <2>a, <2>1, <3>1, <3>2 DEF Handling
    <3> QED BY <1>3, <3>3
  <2>2. CASE Answered(u) /\ chal[u.cid].sid = u.sid /\ judged[u.cid] <= chal[u.cid].attempts
    <3>1. /\ u.op = "validate" /\ u.after # "move"
          /\ \/ u.ch = chal[u.cid] /\ u.chOp # "set" /\ (u.ttl = 0 \/ u.rec = Expelled(r, now))
             \/ u.ch = chal[u.cid] /\ u.chOp # "set" /\ u.rec = Solved(r, now)
             \/ /\ u.ch = [chal[u.cid] EXCEPT !.attempts = @ + 1] /\ ~LastAttempt(u.cid)
                /\ u.chOp = "set" /\ u.ttl = 0
      BY <2>2 DEF Answered
    <3>2. /\ chal[u.cid] \in StoredChallenge /\ judged[u.cid] \in Nat
          /\ chal[u.cid].attempts \in Nat /\ chal[u.cid].attempts < MaxAttempts
      BY <1>0, <2>0 DEF Guesses, Ledger, StoredChallenge
    <3>3. Expelled(r, now).challenge = NoCID /\ Solved(r, now).challenge = NoCID
      BY <1>2 DEF Expelled, Solved, Session
    <3>4. CASE u.chOp = "set"
      <4>1. u.ch.sid = u.sid /\ u.ch.attempts = chal[u.cid].attempts + 1 /\ u.ttl = 0
        BY <2>2, <3>1, <3>2, <3>4 DEF StoredChallenge
      <4>2. u.ch.attempts < MaxAttempts /\ judged[u.cid] < u.ch.attempts
        BY <1>0, <2>2, <3>1, <3>2, <3>4, <4>1 DEF LastAttempt
      <4>3. Handling(p)'
        BY <1>1, <1>2, <1>4, <1>6, <2>0, <2>a, <2>2, <3>1, <3>4, <4>1, <4>2 DEF Handling
      <4> QED BY <1>3, <4>3
    <3>5. CASE u.chOp # "set"
      <4>1. u.ch = chal[u.cid] /\ (u.ttl > 0 => u.rec.challenge = NoCID)
        BY <3>1, <3>3, <3>5
      <4>2. Handling(p)'
        BY <1>1, <1>2, <1>4, <1>6, <2>0, <2>a, <2>2, <3>1, <3>2, <3>5, <4>1 DEF Handling
      <4> QED BY <1>3, <4>2
    <3> QED BY <3>4, <3>5
  <2> QED BY <2>0, <2>1, <2>2
<1> QED BY <1>5, <1>6

\* Every other step of p leaves its books in order.
LEMMA OwnGuesses ==
  ASSUME Inv, TypeInv', Guesses, MaxAttempts > 0, NEW p \in Proc, Acts(p)
  PROVE  Naming(p)' /\ Handling(p)'
<1>0. /\ TypeInv /\ TypeOK /\ now \in Nat /\ task[p] \in Task /\ Naming(p) /\ Handling(p)
      /\ chal \in [CID -> StoredChallenge] /\ judged \in [CID -> Nat]
  BY DEF Inv, TypeInv, TypeOK, Guesses
<1>1. PICK stage, u : Become(p, stage, u) /\ Progress(p, stage, u)
  BY <1>0, Progresses
<1>2. pc'[p] = stage /\ task'[p] = u
  BY <1>0, <1>1, Others
<1>3. CASE Decision(p, stage, u)
  BY <1>1, <1>3, DecidedGuesses
<1>4. CASE ~Decision(p, stage, u) /\ stage \notin {"chal", "save"}
  <2>1. ~Ruling(p)' /\ ~Issuing(p)'
    BY <1>2, <1>4 DEF Ruling, Issuing
  <2>2. ASSUME stage \in {"fresh", "reserved"}, u.op = "new" PROVE u.rec.challenge = NoCID
    <3>1. CASE stage = "fresh"
      BY <1>1, <1>4, <2>2, <3>1 DEF Progress
    <3>2. CASE stage = "reserved"
      <4>1. pc[p] = "fresh" /\ task[p].op = "new" /\ u.rec = Admit(task[p].rec, now)
        BY <1>1, <1>4, <3>2 DEF Progress
      <4>2. task[p].rec.challenge = NoCID /\ task[p].rec \in Session
        BY <1>0, <4>1 DEF Naming, Task
      <4> QED BY <4>1, <4>2 DEF Admit, Session
    <3> QED BY <2>2, <3>1, <3>2
  <2> QED BY <1>2, <1>4, <2>1, <2>2 DEF Naming, Handling
<1>5. CASE ~Decision(p, stage, u) /\ stage \in {"chal", "save"}
  <2>1. /\ stage = "save" /\ pc[p] = "chal" /\ u = task[p] /\ u.ttl > 0
        /\ u.chOp = "drop" \/ WriteChallenge(p)
    BY <1>1, <1>5 DEF Progress
  <2>2. Ruling(p) /\ u.cid \in CID /\ u.chOp # "none" /\ u.sid \in SID
    BY <1>0, <2>1 DEF Handling, Ruling, TypeInv, WellFormed
  <2>3. Ruling(p)' /\ ~Issuing(p)'
    BY <1>2, <2>1, <2>2 DEF Ruling, Issuing
  <2>4. CASE u.op = "issue"
    <3>1. Issuing(p) /\ u.chOp = "set" /\ WriteChallenge(p)
      BY <1>0, <2>1, <2>2, <2>4 DEF Handling, Issuing
    <3>2. /\ chal[u.cid].sid = NoSID /\ u.rec.challenge = u.cid /\ u.after # "move"
          /\ u.ch.sid = u.sid
      BY <1>0, <2>1, <2>2, <3>1 DEF Handling
    <3>3. Keeps(p, u.cid) /\ judged' = judged
      BY <1>0, <2>1, <2>2, <2>4, <3>1 DEF WriteChallenge, ChallengeWritten, Keeps, Ruled
    <3>4. chal'[u.cid].sid = u.sid /\ chal'[u.cid].attempts = u.ch.attempts
      BY <1>0, <2>1, <3>2, <3>3, KeptFields
    <3>5. judged[u.cid] = 0 /\ u.ch.attempts \in Nat
      BY <1>0, <2>1, <2>2, <3>2 DEF Guesses, Ledger, Task, StoredChallenge
    <3>6. Naming(p)'
      BY <1>2, <2>1, <3>2, <3>3, <3>4, <3>5 DEF Naming, Bound
    <3>7. Handling(p)'
      BY <1>0, <1>2, <2>1, <2>2, <2>3, <2>4, <3>1, <3>2, <3>4 DEF Handling
    <3> QED BY <3>6, <3>7
  <2>5. CASE u.op # "issue"
    <3>1. u.op = "validate" /\ ~Issuing(p) /\ u.chOp # "set" /\ u.rec.challenge = NoCID
      BY <1>0, <2>1, <2>2, <2>5 DEF Handling, Issuing
    <3>2. chal[u.cid].sid = u.sid
      BY <1>0, <2>1, <2>2, <3>1 DEF Handling
    <3>3. ~Keeps(p, u.cid) /\ ~Rules(p, u.cid)
      BY <2>1, <3>1 DEF Keeps, Rules
    <3>4. chal'[u.cid].sid = u.sid /\ judged'[u.cid] = judged[u.cid]
      BY <1>0, <2>2, <3>2, <3>3, ChallengeEffect, GoneFields
    <3>5. Naming(p)'
      BY <1>2, <2>1, <3>1, IdAssumption DEF Naming
    <3>6. Handling(p)'
      BY <1>0, <1>2, <2>1, <2>2, <2>3, <3>1, <3>4 DEF Handling
    <3> QED BY <3>5, <3>6
  <2> QED BY <2>4, <2>5
<1> QED BY <1>3, <1>4, <1>5

\* Every step keeps the books.
LEMMA NextGuesses ==
  ASSUME Inv, TypeInv', Guesses, MaxAttempts > 0, [Next]_vars PROVE Guesses'
<1>1. CASE Rests
  <2>0. /\ TypeInv /\ TypeOK /\ MaxAttempts \in Nat
        /\ UNCHANGED <<pc, task, judged>>
        /\ \A q \in Proc : (Ruling(q)' <=> Ruling(q)) /\ (Issuing(q)' <=> Issuing(q))
    BY <1>1, ConfigAssumption DEF Rests, Ruling, Issuing, Inv, TypeInv, ValidConfig
  <2>1. \A c \in CID : /\ chal'[c].sid = chal[c].sid
                       /\ chal'[c] = chal[c] \/ (chal'[c].until = 0 /\ chal'[c].attempts = 0)
    BY <1>1, <2>0, GoneFields DEF Rests
  <2>2. \A s \in SID : sess'[s].until # 0 => sess'[s] = sess[s]
    BY <1>1, <2>0, GoneFields DEF Rests
  <2>3. Ledger'
    BY <2>0, <2>1 DEF Guesses, Ledger
  <2>4. Named'
    BY <2>0, <2>1, <2>2 DEF Guesses, Named, Bound
  <2>5. ASSUME NEW q \in Proc PROVE Naming(q)'
    BY <2>0, <2>1 DEF Guesses, Naming, Bound
  <2>6. ASSUME NEW q \in Proc PROVE Handling(q)'
    <3>1. Handling(q) /\ (Issuing(q) => Ruling(q))
      BY DEF Guesses, Issuing
    <3>2. Ruling(q) => chal'[task[q].cid].sid = chal[task[q].cid].sid
      BY <2>1, <3>1 DEF Handling
    <3> QED BY <2>0, <3>1, <3>2 DEF Handling
  <2> QED BY <2>3, <2>4, <2>5, <2>6 DEF Guesses
<1>2. ASSUME NEW p \in Proc, Acts(p) PROVE Guesses'
  <2>1. ASSUME NEW q \in Proc PROVE Naming(q)' /\ Handling(q)'
    BY <1>2, OwnGuesses, OthersGuesses
  <2> QED BY <1>2, <2>1, ActLedger, ActNamed DEF Guesses
<1> QED BY <1>1, <1>2, Steps DEF Inv

\* No challenge is ruled on more than MaxAttempts times, however many answers race,
\* fail or are taken back (Validate).
THEOREM GuessesLimited ==
  ASSUME MaxAttempts > 0 PROVE Spec => []GuessBudget
<1>1. Init => Guesses
  <2> SUFFICES ASSUME Init PROVE Guesses
    OBVIOUS
  <2>1. MaxAttempts \in Nat
    BY ConfigAssumption DEF ValidConfig
  <2>2. Ledger /\ Named
    BY <2>1 DEF Init, Ledger, Named, NoChallenge, NoSession
  <2>3. \A p \in Proc : pc[p] = "idle" /\ ~Ruling(p) /\ ~Issuing(p)
    BY DEF Init, Ruling, Issuing
  <2> QED BY <2>2, <2>3 DEF Guesses, Naming, Handling
<1>2. Inv /\ Inv' /\ Guesses /\ [Next]_vars => Guesses'
  BY NextGuesses DEF Inv
<1>3. Guesses => GuessBudget
  BY DEF Guesses, Ledger, GuessBudget
<1> QED BY <1>1, <1>2, <1>3, InvAlways, PTL DEF Spec

-----------------------------------------------------------------------------
(* The store forgets in time, as long as no operator moves sessions by     *)
(* hand and calls take no time.                                            *)

\* A live record that is kept until end is gone by the time it expires, and asks for a
\* challenge only where there are any.
Timely(r, end) ==
  r.state # "REVOKED" => /\ r.state # "EXPIRED" /\ end <= r.expiresAt
                         /\ r.state = "CHALLENGE_REQUIRED" => Captcha

Terms ==
  /\ \A s \in SID : sess[s].until # 0 => Timely(sess[s], sess[s].until)
  /\ \A p \in Proc : Saving(p) => Timely(task[p].rec, now + task[p].ttl)

\* Every decision on a live record gives it a term that ends with it.
LEMMA TimelyDecisions ==
  ASSUME TypeOK, NEW u \in Task, sess[u.sid] \in Session, HasSession(u.sid),
         Timely(sess[u.sid], sess[u.sid].until),
         \/ Waited(u) \/ Rotated(u) \/ Revoking(u) \/ Issued(u)
         \/ Answered(u) /\ u.ttl > 0
  PROVE  Timely(u.rec, now + u.ttl)
<1> DEFINE r == sess[u.sid]
<1>0. now \in Nat \ {0} /\ r \in Session /\ r.until > now /\ u.ttl \in Int /\ u.rec \in Session
  BY DEF TypeOK, HasSession, Task
<1>1. /\ r.state # "REVOKED" => r.state # "EXPIRED" /\ r.expiresAt > now
      /\ r.state = "CHALLENGE_REQUIRED" => Captcha
  BY <1>0 DEF Timely, Session
<1> HIDE DEF r
<1>2. CASE Waited(u)
  <2>1. u.rec = LeaveWaitRoom(r, now) /\ u.ttl = u.rec.expiresAt - now
    BY <1>2 DEF Waited, r
  <2>2. LeaveWaitRoom(r, now).state = IF Captcha THEN "CHALLENGE_REQUIRED" ELSE "ADMITTED"
    BY <1>0 DEF LeaveWaitRoom, Session
  <2> QED BY <1>0, <2>1, <2>2 DEF Timely, Session
<1>3. CASE Rotated(u)
  <2>1. u.rec = Successor(r, now) /\ u.ttl = u.rec.expiresAt - now
    BY <1>3 DEF Rotated, r
  <2>2. Successor(r, now).state = "ADMITTED"
    BY <1>0 DEF Successor, Session
  <2> QED BY <1>0, <2>1, <2>2 DEF Timely, Session
<1>4. CASE Revoking(u)
  <2>1. u.rec = Revoked(r)
    BY <1>4 DEF Revoking, r
  <2> QED BY <1>0, <2>1 DEF Timely, Revoked, Session
<1>5. CASE Issued(u)
  <2> DEFINE life == ChallengeLife(r)
  <2>1. u.rec = [r EXCEPT !.challenge = u.cid] /\ u.ttl <= RemainingTTL(r, now, life)
    BY <1>5 DEF Issued, r
  <2>2. r.state = "CHALLENGE_REQUIRED"
    BY <1>5 DEF Issued, Issuable, r
  <2> HIDE DEF life
  <2>3. u.rec.state = r.state /\ u.rec.expiresAt = r.expiresAt
    BY <1>0, <2>1 DEF Session
  <2>4. RemainingTTL(r, now, life) = r.expiresAt - now
    BY <1>0, <1>1, <2>2 DEF RemainingTTL
  <2> QED BY <1>0, <1>1, <2>1, <2>2, <2>3, <2>4 DEF Timely, Session
<1>6. CASE Answered(u) /\ u.ttl > 0
  <2>1. r.state = "CHALLENGE_REQUIRED"
    BY <1>6 DEF Answered, MayAnswer, r
  <2>2. \/ u.rec = Expelled(r, now) /\ u.ttl = RemainingTTL(u.rec, now, SessionTTL)
        \/ u.rec = Solved(r, now) /\ u.ttl = u.rec.expiresAt - now
    BY <1>6 DEF Answered, r
  <2>3. CASE u.rec = Expelled(r, now) /\ u.ttl = RemainingTTL(u.rec, now, SessionTTL)
    <3>1. Expelled(r, now).state \in {r.state, "WAITING"} /\ Expelled(r, now).expiresAt > now
      BY <1>0, <1>1, <2>1 DEF Expelled, Session
    <3>2. u.ttl = u.rec.expiresAt - now
      BY <1>0, <2>3, <3>1 DEF RemainingTTL
    <3> QED BY <1>0, <1>1, <2>1, <2>3, <3>1, <3>2 DEF Timely, Session
  <2>4. CASE u.rec = Solved(r, now) /\ u.ttl = u.rec.expiresAt - now
    <3>1. Solved(r, now).state = "ADMITTED"
      BY <1>0 DEF Solved, Session
    <3> QED BY <1>0, <2>4, <3>1 DEF Timely, Session
  <2> QED BY <2>2, <2>3, <2>4
<1> QED BY <1>2, <1>3, <1>4, <1>5, <1>6

\* A step of a call keeps the terms.
LEMMA ActTerms ==
  ASSUME TypeInv, TypeInv', Terms, "transition" \notin Ops, NEW p \in Proc, Acts(p) PROVE Terms'
<1>0. /\ TypeInv /\ TypeOK /\ now \in Nat \ {0} /\ now' = now
      /\ sess \in [SID -> Session] /\ task \in [Proc -> Task] /\ task' \in [Proc -> Task]
  BY HistoryEffect DEF TypeInv, TypeOK
<1>1. PICK stage, u : Become(p, stage, u) /\ Progress(p, stage, u)
  BY <1>0, Progresses
<1>2. /\ pc'[p] = stage /\ task'[p] = u /\ u \in Task
      /\ \A q \in Proc \ {p} : pc'[q] = pc[q] /\ task'[q] = task[q]
      /\ \A q \in Proc : pc[q] # "idle" => task[q].id \in SID /\ task[q].sid \in SID
  BY <1>0, <1>1, Others
<1>3. ASSUME NEW s \in SID, sess'[s].until # 0 PROVE Timely(sess'[s], sess'[s].until)
  <2>1. CASE sess'[s] = sess[s]
    BY <1>3, <2>1 DEF Terms
  <2>2. CASE Writes(p, s)
    <3>1. /\ pc[p] \in {"reserved", "save"} /\ task[p].rec \in Session
          /\ sess'[s] = Stored(task[p].rec, task[p].ttl)
      BY <1>0, <2>2 DEF Writes, Task
    <3>2. Timely(task[p].rec, now + task[p].ttl)
      BY <3>1 DEF Terms, Saving
    <3>3. /\ sess'[s].state = task[p].rec.state /\ sess'[s].expiresAt = task[p].rec.expiresAt
          /\ sess'[s].until = now + task[p].ttl
      BY <3>1 DEF Stored, Session
    <3> QED BY <3>2, <3>3 DEF Timely
  <2> QED BY <1>0, <1>3, <2>1, <2>2, SessionEffect, GoneFields
<1>4. ASSUME NEW q \in Proc \ {p}, Saving(q)' PROVE Timely(task'[q].rec, now' + task'[q].ttl)
  <2>1. task'[q] = task[q] /\ Saving(q)
    BY <1>2, <1>4 DEF Saving
  <2>2. Timely(task[q].rec, now + task[q].ttl)
    BY <2>1 DEF Terms
  <2> QED BY <1>0, <2>1, <2>2
<1>5. ASSUME Saving(p)' PROVE Timely(u.rec, now + u.ttl)
  <2>1. CASE stage = "reserved" /\ ~Decision(p, stage, u)
    <3>1. /\ u.rec = Admit(task[p].rec, now) /\ u.ttl = u.rec.expiresAt - now
          /\ task[p].rec \in Session
      BY <1>0, <1>1, <2>1 DEF Progress, Task
    <3>2. Admit(task[p].rec, now) \in Session /\ Admit(task[p].rec, now).state # "EXPIRED"
      BY <1>0, <3>1, AdmitType
    <3>3. Admit(task[p].rec, now).state = "CHALLENGE_REQUIRED" => Captcha
      BY <3>1 DEF Admit, Session
    <3> QED BY <1>0, <3>1, <3>2, <3>3 DEF Timely, Session
  <2>2. CASE stage = "save" /\ pc[p] = "chal" /\ u = task[p] /\ u.ttl > 0
    BY <2>2 DEF Terms, Saving
  <2>3. CASE Decision(p, stage, u)
    <3>1. u.sid \in SID /\ sess[u.sid] \in Session /\ HasSession(u.sid)
      BY <1>0, <1>2, <2>3 DEF Decision
    <3>2. Timely(sess[u.sid], sess[u.sid].until)
      BY <1>0, <3>1 DEF Terms, HasSession, Session
    <3>3. ~Moved(u)
      BY <1>2 DEF Moved, Task
    <3>4. stage = "chal" => u.ttl > 0
      BY <1>2, <1>5 DEF Saving
    <3> QED BY <1>0, <1>2, <2>3, <3>1, <3>2, <3>3, <3>4, TimelyDecisions DEF Decision
  <2> QED BY <1>1, <1>2, <1>5, <2>1, <2>2, <2>3 DEF Progress, Saving
<1>6. ASSUME NEW q \in Proc, Saving(q)' PROVE Timely(task'[q].rec, now' + task'[q].ttl)
  BY <1>0, <1>2, <1>4, <1>5, <1>6
<1> QED BY <1>3, <1>6 DEF Terms, Saving

\* So does every step.
LEMMA NextTerms ==
  ASSUME TypeInv, TypeInv', Terms, "transition" \notin Ops, ~Slow, [LapsingNext]_vars PROVE Terms'
<1>1. CASE Rests
  <2>1. \A s \in SID : GoneSession(s).until = 0
    BY GoneFields DEF TypeInv
  <2>2. /\ UNCHANGED <<pc, task>> /\ \A q \in Proc : Saving(q)' <=> Saving(q)
        /\ \A q \in Proc : Saving(q) => now' = now
    BY <1>1 DEF Rests, Saving
  <2>3. \A s \in SID : sess'[s].until # 0 => sess'[s] = sess[s]
    BY <1>1, <2>1 DEF Rests
  <2>4. ASSUME NEW q \in Proc, Saving(q)' PROVE Timely(task'[q].rec, now' + task'[q].ttl)
    BY <2>2, <2>4 DEF Terms
  <2>5. ASSUME NEW s \in SID, sess'[s].until # 0 PROVE Timely(sess'[s], sess'[s].until)
    BY <2>3, <2>5 DEF Terms
  <2> QED BY <2>4, <2>5 DEF Terms, Saving
<1> QED BY <1>1, LapsingSteps, ActTerms

LEMMA TermsAlways ==
  ASSUME "transition" \notin Ops, ~Slow PROVE LapsingSpec => []Terms
<1>1. Init => Terms
  BY DEF Init, Terms, Saving, NoSession
<1>2. Ids /\ Ids' /\ Terms /\ [LapsingNext]_vars => Terms'
  BY NextTerms DEF Ids
<1> QED BY <1>1, <1>2, IdsAlways, LapsingBox, PTL

\* Where calls take no time and no operator moves sessions by hand, and even where a lock
\* may be lost, the store has forgotten a session by the time it expires: what it hands
\* out is revoked or live.  Issue shortens the time a record is kept, Validate gives it
\* back (RemainingTTL), and neither extends a record that has expired.
THEOREM GoneWhenExpired ==
  ASSUME "transition" \notin Ops, ~Slow
  PROVE  LapsingSpec => [](\A s \in SID : HasSession(s) => ~IsExpired(sess[s], now) \/ IsRevoked(sess[s]))
<1>1. ASSUME Ids, Terms
      PROVE  \A s \in SID : HasSession(s) => ~IsExpired(sess[s], now) \/ IsRevoked(sess[s])
  BY <1>1 DEF Terms, Timely, HasSession, IsExpired, IsRevoked, Ids, TypeInv, TypeOK, Session
<1> QED BY <1>1, IdsAlways, TermsAlways, PTL

-----------------------------------------------------------------------------
(* The number of slots, whatever fails or dies.                            *)

SlotsBounded(r) == IsFiniteSet(Members(r)) /\ Cardinality(Members(r)) <= MaxSessions

\* Fewer members are not too many.
LEMMA FewerMembers ==
  ASSUME NEW r, NEW x, SlotsBounded(r), Members(x) \subseteq Members(r) PROVE SlotsBounded(x)
<1>1. IsFiniteSet(Members(x)) /\ Cardinality(Members(x)) <= Cardinality(Members(r))
  BY FS_Subset DEF SlotsBounded
<1>2. Cardinality(Members(x)) \in Int /\ Cardinality(Members(r)) \in Int
  BY <1>1, FS_CardinalityType DEF SlotsBounded
<1> QED BY <1>1, <1>2, ConfigAssumption DEF SlotsBounded, ValidConfig

\* Nor is one more where there is room, or one in the place of another.
LEMMA OneMoreMember ==
  ASSUME NEW r, NEW x, NEW s, SlotsBounded(r), Members(x) \subseteq Members(r) \cup {s},
         \/ Cardinality(Members(r)) < MaxSessions
         \/ \E o \in Members(r) : Members(x) \subseteq (Members(r) \ {o}) \cup {s}
  PROVE  SlotsBounded(x)
<1>0. Cardinality(Members(r)) \in Nat /\ MaxSessions \in Nat
  BY FS_CardinalityType, ConfigAssumption DEF SlotsBounded, ValidConfig
<1>1. CASE Cardinality(Members(r)) < MaxSessions
  <2> DEFINE S == Members(r) \cup {s}
  <2>1. IsFiniteSet(S) /\ Cardinality(S) <= Cardinality(Members(r)) + 1
    BY <1>0, FS_AddElement DEF SlotsBounded
  <2>2. IsFiniteSet(Members(x)) /\ Cardinality(Members(x)) <= Cardinality(S)
    BY <2>1, FS_Subset
  <2>3. Cardinality(Members(x)) \in Nat /\ Cardinality(S) \in Nat
    BY <2>1, <2>2, FS_CardinalityType
  <2> QED BY <1>0, <1>1, <2>1, <2>2, <2>3 DEF SlotsBounded
<1>2. ASSUME NEW o \in Members(r), Members(x) \subseteq (Members(r) \ {o}) \cup {s}
      PROVE  SlotsBounded(x)
  <2> DEFINE R == Members(r) \ {o}
             S == R \cup {s}
  <2>1. IsFiniteSet(R) /\ Cardinality(R) = Cardinality(Members(r)) - 1
    BY FS_RemoveElement DEF SlotsBounded
  <2>2. IsFiniteSet(S) /\ Cardinality(S) <= Cardinality(R) + 1
    BY <1>0, <2>1, FS_AddElement
  <2>3. IsFiniteSet(Members(x)) /\ Cardinality(Members(x)) <= Cardinality(S)
    BY <1>2, <2>2, FS_Subset
  <2>4. Cardinality(Members(x)) \in Nat /\ Cardinality(S) \in Nat
    BY <2>2, <2>3, FS_CardinalityType
  <2> QED BY <1>0, <2>1, <2>2, <2>3, <2>4 DEF SlotsBounded
<1> QED BY <1>1, <1>2

\* No operation on reservations makes too many.
LEMMA OperationsBounded ==
  ASSUME TypeOK, SlotsBounded(resv), NEW s \in SID, NEW e
  PROVE  /\ SlotsBounded(Reserve(s, e)) /\ SlotsBounded(Release(s))
         /\ \A old \in SID : SlotsBounded(MoveReservation(old, s, e))
<1>0. resv \in [SID -> Nat] /\ Swept \in [SID -> Nat] /\ \A o \in SID : Swept[o] \in {resv[o], 0}
  BY DEF Swept, TypeOK
<1>1. SlotsBounded(Swept)
  <2>1. Members(Swept) \subseteq Members(resv)
    BY <1>0 DEF Members
  <2> QED BY <2>1, FewerMembers
<1>2. SlotsBounded(Reserve(s, e))
  <2>1. CASE resv[s] # 0
    <3>1. Members(Reserve(s, e)) \subseteq Members(resv)
      BY <1>0, <2>1 DEF Members, Reserve
    <3> QED BY <3>1, FewerMembers
  <2>2. CASE resv[s] = 0 /\ HasRoom(s)
    <3>1. Members(Reserve(s, e)) \subseteq Members(Swept) \cup {s}
      BY <1>0, <2>2 DEF Members, Reserve
    <3>2. Cardinality(Members(Swept)) < MaxSessions
      BY <2>2 DEF HasRoom
    <3> QED BY <1>1, <3>1, <3>2, OneMoreMember
  <2>3. CASE resv[s] = 0 /\ ~HasRoom(s)
    BY <1>1, <2>3 DEF Reserve
  <2> QED BY <2>1, <2>2, <2>3
<1>3. SlotsBounded(Release(s))
  <2>1. Members(Release(s)) \subseteq Members(resv)
    BY <1>0 DEF Members, Release
  <2> QED BY <2>1, FewerMembers
<1>4. ASSUME NEW old \in SID PROVE SlotsBounded(MoveReservation(old, s, e))
  <2>1. CASE resv[old] = 0
    BY <2>1 DEF MoveReservation
  <2>2. CASE resv[old] # 0
    <3>1. /\ old \in Members(resv)
          /\ Members(MoveReservation(old, s, e)) \subseteq (Members(resv) \ {old}) \cup {s}
      BY <1>0, <2>2 DEF Members, MoveReservation
    <3> QED BY <3>1, OneMoreMember
  <2> QED BY <2>1, <2>2
<1> QED BY <1>2, <1>3, <1>4

\* What p does to reservations.
Rebooks(p) ==
  LET s == task[p].id
  IN  \/ pc[p] = "fresh" /\ task[p].op = "new" /\ \E e : resv' = Reserve(s, e)
      \/ pc[p] = "reserved" /\ resv' = Release(s)
      \/ /\ pc[p] = "resv"
         /\ \/ \E e : resv' = Reserve(s, e)
            \/ resv' = Release(s)
            \/ \E e : resv' = MoveReservation(task[p].sid, s, e)

\* Reservations change by one operation on the slot of p's session.
LEMMA ReservationEffect ==
  ASSUME TypeInv, NEW p \in Proc, Acts(p) PROVE UNCHANGED resv \/ Rebooks(p)
<1>1. CASE SettleReservation(p)
  <2>1. pc[p] = "resv" /\ task[p].after \in {"renew", "exact", "release", "move"}
    BY <1>1 DEF SettleReservation, TypeInv, WellFormed, Task
  <2> QED BY <1>1, <2>1 DEF SettleReservation, Rebooks
<1>2. CASE HandleNewClient(p) \/ RefuseNewClient(p) \/ ReserveFails(p)
  BY <1>2 DEF HandleNewClient, RefuseNewClient, ReserveFails, Rebooks
<1>3. CASE SaveNewClientFails(p)
  BY <1>3 DEF SaveNewClientFails, Rebooks
<1>4. ASSUME ~SettleReservation(p), ~HandleNewClient(p), ~RefuseNewClient(p), ~ReserveFails(p),
             ~SaveNewClientFails(p)
      PROVE  UNCHANGED resv
  BY <1>4
  DEF Acts, Entry, Decide, Write, Fail, Resolve, ResolveNew, EvaluateOnly, EvaluateWaiting,
      SaveNewClient, Call,
      handleWaitElapsed, Issue, ValidateExpired, ValidateRetry, ValidateExpel,
      ValidateSolved, RotateSession, RevokeSession, Transition, ReturnEarly,
      WriteChallenge, SaveSession, DeleteOld, Unlock, Return,
      ChallengeWriteFails, SaveFails, DeleteFails, ReservationFails, UnlockFails, Crash, store
<1> QED BY <1>1, <1>2, <1>3, <1>4

LEMMA NextBounded ==
  ASSUME TypeInv, SlotsBounded(resv), [LapsingNext]_vars PROVE SlotsBounded(resv')
<1>0. TypeOK
  BY DEF TypeInv
<1>1. CASE Rests
  <2>1. Members(resv') \subseteq Members(resv)
    BY <1>1 DEF Rests, Members
  <2> QED BY <2>1, FewerMembers
<1>2. ASSUME NEW p \in Proc, Acts(p) PROVE SlotsBounded(resv')
  <2>1. pc[p] # "idle" => task[p].id \in SID /\ task[p].sid \in SID
    BY DEF TypeInv, WellFormed
  <2>2. CASE Rebooks(p)
    <3>1. task[p].id \in SID /\ task[p].sid \in SID
      BY <2>1, <2>2 DEF Rebooks
    <3> QED BY <1>0, <2>2, <3>1, OperationsBounded DEF Rebooks
  <2> QED BY <1>2, <2>2, ReservationEffect
<1> QED BY <1>1, <1>2, LapsingSteps

\* Whatever fails or dies, and even where a lock may be lost, no more than MaxSessions
\* capacity slots are taken, lapsed ones included (ReserveSession, MoveSessionReservation
\* as handlers call them).
THEOREM SlotsNeverOverbooked == LapsingSpec => []SlotsBounded(resv)
<1>1. Init => SlotsBounded(resv)
  <2> SUFFICES ASSUME Init PROVE SlotsBounded(resv)
    OBVIOUS
  <2>1. Members(resv) = {}
    BY DEF Init, Members
  <2> QED BY <2>1, FS_EmptySet, ConfigAssumption DEF SlotsBounded, ValidConfig
<1>2. Ids /\ SlotsBounded(resv) /\ [LapsingNext]_vars => SlotsBounded(resv)'
  BY NextBounded DEF Ids, SlotsBounded, Members
<1> QED BY <1>1, <1>2, IdsAlways, LapsingBox, PTL

-----------------------------------------------------------------------------
(* Capacity: a usable session has a slot that lasts as long as it does, or *)
(* a call under its lock is about to make it so.                           *)

\* s has a slot until e.
Covered(s, e) == resv[s] > now /\ resv[s] >= e

\* p has extended s and is about to extend its slot.
Settling(p, s) == pc[p] = "resv" /\ task[p].after \in {"renew", "exact"} /\ task[p].id = s

Lodging(s) == HasSession(s) /\ ~IsRevoked(sess[s]) =>
  resv[s] > now /\ (Covered(s, sess[s].expiresAt) \/ \E p \in Proc : Settling(p, s))

\* What a call has in hand to keep it so: the slot of its session, and the date it will
\* give it.
Holds(p) ==
  LET t == task[p]
  IN  /\ pc[p] = "reserved" => Covered(t.id, t.rec.expiresAt)
      /\ pc[p] \in {"chal", "save", "del", "resv"} /\ t.after # "release" => resv[t.sid] > now
      /\ pc[p] \in {"chal", "save"} /\ t.ttl > 0 /\ t.after = "none"
           => Covered(t.sid, t.rec.expiresAt)
      /\ pc[p] \in {"chal", "save", "resv"} /\ t.after = "renew" => t.rec.expiresAt = now + t.ttl
      /\ pc[p] \in {"chal", "save", "resv"} /\ t.after = "release" => IsRevoked(t.rec)
      /\ pc[p] \in {"del", "resv"} /\ t.after # "release" =>
           t.rec.expiresAt > now /\ sess[t.id].expiresAt = t.rec.expiresAt
      /\ pc[p] = "unlock" /\ t.after = "move" => Covered(t.id, sess[t.id].expiresAt)

Lodged == (\A s \in known : Lodging(s)) /\ \A p \in Proc : Holds(p)

\* The sessions p alone is at: the one it creates, and the one it has locked.
Owns(p, s) == \/ Newborn(p) /\ s = task[p].id
              \/ pc[p] \in Locked /\ s = task[p].sid

\* No two calls are at the same session.
LEMMA Apart ==
  ASSUME Inv, NEW p \in Proc, NEW q \in Proc \ {p}, NEW s, Owns(p, s) PROVE ~Owns(q, s)
<1>1. Newborn(p) /\ s = task[p].id => ~Owns(q, s)
  BY DEF Owns, Inv, Births, Tenants
<1>2. pc[p] \in Locked /\ s = task[p].sid => ~Owns(q, s)
  BY DEF Owns, Inv, Births, Tenants, LockHeld
<1> QED BY <1>1, <1>2 DEF Owns

\* A call writes its own sessions only.
LEMMA WritesOwn ==
  ASSUME Inv, NEW p \in Proc, pc[p] # "idle"
  PROVE  /\ task[p].id \in SID /\ task[p].sid \in SID
         /\ pc[p] \in Locked => Owns(p, task[p].sid)
         /\ pc[p] \in {"reserved", "save", "del", "resv"} => Owns(p, task[p].id)
         /\ pc[p] = "fresh" /\ task[p].op = "new" => Owns(p, task[p].id)
         /\ pc[p] = "unlock" /\ task[p].after = "move" => Owns(p, task[p].id)
<1>1. WellFormed(pc[p], task[p])
  BY DEF Inv, TypeInv
<1> QED BY <1>1 DEF WellFormed, Owns, Newborn, Locked

\* The steps of a call that meets no failure: it writes a record, a slot or the list of
\* known ids, or none of these.
LEMMA Faultless ==
  ASSUME Faults = {}, NEW p \in Proc, Acts(p)
  PROVE  \/ UNCHANGED <<sess, resv, known>> /\ pc[p] \in {"idle", "fresh", "held", "chal"}
         \/ HandleNewClient(p) \/ RefuseNewClient(p) \/ SaveNewClient(p)
         \/ SaveSession(p) \/ DeleteOld(p) \/ SettleReservation(p) \/ Unlock(p)
<1>1. ~Fail(p)
  BY DEF Fail, ChallengeWriteFails, SaveFails, DeleteFails, ReservationFails, ReserveFails,
         SaveNewClientFails, UnlockFails, Crash
<1>2. ASSUME Entry(p), ~HandleNewClient(p), ~RefuseNewClient(p), ~SaveNewClient(p)
      PROVE  UNCHANGED <<sess, resv, known>> /\ pc[p] \in {"idle", "fresh", "held", "chal"}
  BY <1>2 DEF Entry, Resolve, ResolveNew, EvaluateOnly, EvaluateWaiting, Call, store, history
<1>3. ASSUME Decide(p)
      PROVE  UNCHANGED <<sess, resv, known>> /\ pc[p] \in {"idle", "fresh", "held", "chal"}
  BY <1>3
  DEF Decide, handleWaitElapsed, Issue, Validating, ValidateExpired, ValidateRetry, ValidateExpel,
      ValidateSolved, RotateSession, RevokeSession, Transition, ReturnEarly, Holding, store, history
<1>4. WriteChallenge(p) => /\ UNCHANGED <<sess, resv, known>>
                           /\ pc[p] \in {"idle", "fresh", "held", "chal"}
  BY DEF WriteChallenge
<1> QED BY <1>1, <1>2, <1>3, <1>4 DEF Acts, Write

\* An operation on the slots of s and old loses no other slot that is live.
LEMMA LiveSlots ==
  ASSUME TypeOK, NEW s \in SID, NEW e, NEW o \in SID, resv[o] > now
  PROVE  /\ o # s => Reserve(s, e)[o] = resv[o] /\ Release(s)[o] = resv[o]
         /\ \A old \in SID : o # s /\ o # old => MoveReservation(old, s, e)[o] = resv[o]
<1>1. resv \in [SID -> Nat] /\ Swept \in [SID -> Nat] /\ Swept[o] = resv[o]
  BY DEF Swept, TypeOK
<1>2. o # s => Reserve(s, e)[o] = resv[o]
  BY <1>1 DEF Reserve
<1> QED BY <1>1, <1>2 DEF Release, MoveReservation

\* The reservation a call settles.
LEMMA Settled ==
  ASSUME Inv, NEW p \in Proc, SettleReservation(p)
  PROVE  LET t == task[p]
         IN  /\ pc[p] = "resv" /\ t.id \in SID /\ t.sid \in SID
             /\ \/ t.after = "renew" /\ resv' = Reserve(t.id, now + t.ttl)
                \/ t.after = "exact" /\ resv' = Reserve(t.id, t.rec.expiresAt)
                \/ t.after = "release" /\ resv' = Release(t.id)
                \/ t.after = "move" /\ resv' = MoveReservation(t.sid, t.id, t.rec.expiresAt)
             /\ UNCHANGED <<now, sess, known>>
<1>1. /\ pc[p] = "resv" /\ task[p].id \in SID /\ task[p].sid \in SID
      /\ task[p].after \in {"renew", "exact", "release", "move"}
  BY DEF SettleReservation, Inv, TypeInv, WellFormed, Task
<1> QED BY <1>1 DEF SettleReservation, history

\* What is not its own a call leaves alone, but for slots that have lapsed.
LEMMA OwnEffect ==
  ASSUME Inv, Faults = {}, NEW p \in Proc, Acts(p), NEW s \in SID, ~Owns(p, s)
  PROVE  /\ sess'[s] = sess[s] /\ (s \in known' => s \in known)
         /\ resv[s] > now => resv'[s] = resv[s]
<1> DEFINE t == task[p]
<1>0. TypeOK /\ sess \in [SID -> Session]
  BY DEF Inv, TypeInv, TypeOK
<1>1. CASE HandleNewClient(p) \/ RefuseNewClient(p)
  <2>1. /\ pc[p] = "fresh" /\ t.op = "new" /\ UNCHANGED <<sess, known>>
        /\ \E e : resv' = Reserve(t.id, e)
    BY <1>1 DEF HandleNewClient, RefuseNewClient, history
  <2>2. t.id \in SID /\ s # t.id
    BY <2>1, WritesOwn
  <2> QED BY <1>0, <2>1, <2>2, LiveSlots
<1>2. CASE SaveNewClient(p) \/ SaveSession(p)
  <2>1. pc[p] \in {"reserved", "save"}
    BY <1>2 DEF SaveNewClient, SaveSession
  <2>2. t.id \in SID /\ s # t.id
    BY <2>1, WritesOwn
  <2> QED BY <1>0, <1>2, <2>2 DEF SaveNewClient, SaveSession
<1>3. CASE DeleteOld(p)
  <2>1. pc[p] = "del" /\ t.sid \in SID /\ s # t.sid
    BY <1>3, WritesOwn DEF DeleteOld, Locked
  <2> QED BY <1>0, <1>3, <2>1 DEF DeleteOld, history
<1>4. CASE SettleReservation(p)
  <2>1. pc[p] = "resv" /\ t.id \in SID /\ t.sid \in SID /\ s # t.id /\ s # t.sid
    BY <1>4, Settled, WritesOwn DEF Locked
  <2>2. /\ UNCHANGED <<sess, known>>
        /\ \E e : \/ resv' = Reserve(t.id, e) \/ resv' = Release(t.id)
                  \/ resv' = MoveReservation(t.sid, t.id, e)
    BY <1>4, Settled
  <2>3. ASSUME NEW e, resv[s] > now
        PROVE  /\ Reserve(t.id, e)[s] = resv[s] /\ Release(t.id)[s] = resv[s]
               /\ MoveReservation(t.sid, t.id, e)[s] = resv[s]
    BY <1>0, <2>1, <2>3, LiveSlots
  <2> QED BY <2>2, <2>3
<1>5. CASE Unlock(p)
  <2>1. pc[p] = "unlock" /\ (t.after = "move" => s # t.id)
    BY <1>5, WritesOwn DEF Unlock, Return
  <2> QED BY <1>5, <2>1 DEF Unlock, Return, store
<1> QED BY <1>1, <1>2, <1>3, <1>4, <1>5, Faultless

\* What a call decides it can hold on to: the record it read under the lock has a slot
\* that covers it, for nobody else is extending it.  An expulsion that gives the session
\* more time, as only the waiting room does, would outlast that slot.
LEMMA DecisionHolds ==
  ASSUME Inv, Terms, Lodged, "transition" \notin Ops, ~(WaitRoom /\ Captcha),
         NEW p \in Proc, NEW stage, NEW u \in Task, Decision(p, stage, u)
  PROVE  /\ stage \in {"chal", "save"}
         /\ u.after # "release" => resv[u.sid] > now
         /\ u.ttl > 0 /\ u.after = "none" => Covered(u.sid, u.rec.expiresAt)
         /\ u.after = "renew" => u.rec.expiresAt = now + u.ttl
         /\ u.after = "release" => IsRevoked(u.rec)
<1> DEFINE r == sess[u.sid]
<1>0. /\ TypeInv /\ now \in Nat \ {0} /\ sess \in [SID -> Session] /\ u.ttl \in Int
      /\ u.rec \in Session /\ u.op \in {"none", "new", "wait"} \cup Ops
  BY DEF Inv, TypeInv, TypeOK, Task
<1>1. /\ pc[p] = "held" /\ u.sid = task[p].sid /\ u.sid \in SID /\ u.sid \in known
      /\ HasSession(u.sid) /\ r \in Session
  BY <1>0 DEF Decision, Inv, Tenants, TypeInv, WellFormed, Locked
<1>2. stage = "save" \/ stage = "chal"
  BY DEF Decision
<1>3. ASSUME ~IsRevoked(r) PROVE resv[u.sid] > now /\ Covered(u.sid, r.expiresAt)
  <2>1. ASSUME NEW q \in Proc, Settling(q, u.sid) PROVE FALSE
    <3>1. q # p /\ Owns(q, u.sid)
      BY <1>1, <2>1, WritesOwn DEF Settling
    <3>2. Owns(p, u.sid)
      BY <1>1 DEF Owns, Locked
    <3> QED BY <3>1, <3>2, Apart
  <2> QED BY <1>1, <1>3, <2>1 DEF Lodged, Lodging
<1>4. IsRevoked(u.rec) => u.rec.state = "REVOKED"
  BY DEF IsRevoked
<1>5. CASE Waited(u)
  <2>1. r.state = "WAITING" /\ u.after = "renew" /\ u.ttl = u.rec.expiresAt - now
    BY <1>5 DEF Waited, StillOver, WaitOver
  <2> QED BY <1>0, <1>2, <1>3, <2>1 DEF IsRevoked, Session
<1>6. CASE Rotated(u)
  <2>1. ~IsRevoked(r) /\ u.after = "move"
    BY <1>6 DEF Rotated, Rotatable
  <2> QED BY <1>2, <1>3, <2>1
<1>7. CASE Revoking(u)
  <2>1. u.after = "release" /\ u.rec = Revoked(r)
    BY <1>7 DEF Revoking
  <2> QED BY <1>1, <1>2, <2>1 DEF IsRevoked, Revoked, Session
<1>8. CASE Issued(u)
  <2>1. u.rec = [r EXCEPT !.challenge = u.cid] /\ u.after = "none" /\ r.state = "CHALLENGE_REQUIRED"
    BY <1>8 DEF Issued, Issuable
  <2>2. u.rec.expiresAt = r.expiresAt
    BY <1>1, <2>1 DEF Session
  <2> QED BY <1>2, <1>3, <2>1, <2>2 DEF IsRevoked
<1>9. CASE stage = "chal" /\ Answered(u)
  <2>1. r.state = "CHALLENGE_REQUIRED" /\ u.after \in {"none", "exact"}
    BY <1>9 DEF Answered, MayAnswer
  <2>2. resv[u.sid] > now /\ Covered(u.sid, r.expiresAt)
    BY <1>3, <2>1 DEF IsRevoked
  <2>3. ASSUME u.ttl > 0, u.after = "none" PROVE u.rec.expiresAt = r.expiresAt
    <3>1. u.rec = Expelled(r, now)
      BY <1>9, <2>3 DEF Answered
    <3>2. Captcha
      BY <1>0, <1>1, <2>1 DEF Terms, Timely, HasSession, Session
    <3> QED BY <1>1, <3>1, <3>2 DEF Expelled, Session
  <2> QED BY <1>2, <1>9, <2>1, <2>2, <2>3
<1> QED BY <1>0, <1>2, <1>5, <1>6, <1>7, <1>8, <1>9 DEF Decision, Moved

\* The others hold what they held.
LEMMA OthersHold ==
  ASSUME Inv, Lodged, Faults = {}, NEW p \in Proc, Acts(p), NEW q \in Proc \ {p}
  PROVE  Holds(q)'
<1> DEFINE t == task[q]
<1>1. now' = now /\ pc'[q] = pc[q] /\ task'[q] = task[q]
  <2>1. PICK stage, u : Become(p, stage, u)
    BY Progresses DEF Inv
  <2> QED BY <2>1, Others, HistoryEffect DEF Inv
<1>2. \A s \in SID : Owns(q, s) => sess'[s] = sess[s] /\ (resv[s] > now => resv'[s] = resv[s])
  BY Apart, OwnEffect
<1>3. Holds(q)
  BY DEF Lodged
<1>4. /\ pc[q] # "idle" => t.id \in SID /\ t.sid \in SID
      /\ pc[q] \in Locked => Owns(q, t.sid)
      /\ pc[q] \in {"reserved", "save", "del", "resv"} => Owns(q, t.id)
      /\ pc[q] = "unlock" /\ t.after = "move" => Owns(q, t.id)
  BY WritesOwn DEF Locked
<1>5. pc[q] \in Locked /\ resv[t.sid] > now => resv'[t.sid] = resv[t.sid]
  BY <1>2, <1>4 DEF Locked
<1>6. pc[q] \in {"reserved", "save", "del", "resv"} \/ (pc[q] = "unlock" /\ t.after = "move")
        => sess'[t.id] = sess[t.id] /\ (resv[t.id] > now => resv'[t.id] = resv[t.id])
  BY <1>2, <1>4
<1>7. pc'[q] = "reserved" => resv'[t.id] > now' /\ resv'[t.id] >= t.rec.expiresAt
  BY <1>1, <1>3, <1>6 DEF Holds, Covered
<1>8. pc'[q] \in {"chal", "save", "del", "resv"} /\ t.after # "release" => resv'[t.sid] > now'
  BY <1>1, <1>3, <1>5 DEF Holds, Locked
<1>9. pc'[q] \in {"chal", "save"} /\ t.ttl > 0 /\ t.after = "none" =>
        resv'[t.sid] > now' /\ resv'[t.sid] >= t.rec.expiresAt
  BY <1>1, <1>3, <1>5 DEF Holds, Covered, Locked
<1>10. pc'[q] \in {"chal", "save", "resv"} =>
         (t.after = "renew" => t.rec.expiresAt = now' + t.ttl) /\ (t.after = "release" => IsRevoked(t.rec))
  BY <1>1, <1>3 DEF Holds
<1>11. pc'[q] \in {"del", "resv"} /\ t.after # "release" =>
         t.rec.expiresAt > now' /\ sess'[t.id].expiresAt = t.rec.expiresAt
  BY <1>1, <1>3, <1>6 DEF Holds
<1>12. pc'[q] = "unlock" /\ t.after = "move" =>
         resv'[t.id] > now' /\ resv'[t.id] >= sess'[t.id].expiresAt
  BY <1>1, <1>3, <1>6 DEF Holds, Covered
<1> QED BY <1>1, <1>7, <1>8, <1>9, <1>10, <1>11, <1>12 DEF Holds, Covered, IsRevoked

\* p leaves its own sessions in order.
Kept(p) == Holds(p)' /\ \A s \in known' : Owns(p, s) => Lodging(s)'

\* First contact and evaluation, the decisions, and the writes of challenges.
LEMMA QuietKept ==
  ASSUME Inv, TypeInv', Terms, Lodged, "transition" \notin Ops, ~(WaitRoom /\ Captcha),
         NEW p \in Proc, Acts(p), UNCHANGED <<sess, resv, known>>,
         pc[p] \in {"idle", "fresh", "held", "chal"}
  PROVE  Kept(p)
<1>0. /\ TypeInv /\ TypeOK /\ now' = now
  BY HistoryEffect DEF Inv, TypeInv
<1>1. PICK stage, u : Become(p, stage, u) /\ Progress(p, stage, u)
  BY <1>0, Progresses
<1>2. /\ pc'[p] = stage /\ task'[p] = u /\ \A q \in Proc \ {p} : pc'[q] = pc[q] /\ task'[q] = task[q]
  BY <1>0, <1>1, Others
<1>3. u \in Task /\ WellFormed(stage, u)
  BY <1>2 DEF TypeInv, WellFormed
<1>4. ASSUME NEW s \in known', Owns(p, s) PROVE Lodging(s)'
  <2>1. Lodging(s)
    BY <1>4 DEF Lodged
  <2>2. \A q \in Proc : Settling(q, s) => Settling(q, s)'
    BY <1>2 DEF Settling
  <2> QED BY <1>0, <2>1, <2>2 DEF Lodging, HasSession, IsRevoked, Covered
<1>5. Holds(p)'
  <2>1. CASE Decision(p, stage, u)
    <3>1. /\ stage \in {"chal", "save"}
          /\ u.after # "release" => resv[u.sid] > now
          /\ u.ttl > 0 /\ u.after = "none" => Covered(u.sid, u.rec.expiresAt)
          /\ u.after = "renew" => u.rec.expiresAt = now + u.ttl
          /\ u.after = "release" => IsRevoked(u.rec)
      BY <1>3, <2>1, DecisionHolds
    <3> QED BY <1>0, <1>2, <3>1 DEF Holds, Covered, IsRevoked
  <2>2. CASE stage = "reserved" /\ ~Decision(p, stage, u)
    <3>1. /\ resv' = Reserve(u.id, u.rec.expiresAt) /\ HasRoom(u.id)
          /\ u.ttl = u.rec.expiresAt - now /\ u.id \in SID
      BY <1>1, <1>3, <2>2 DEF Progress, WellFormed
    <3>2. resv'[u.id] = u.rec.expiresAt
      BY <1>0, <3>1 DEF Reserve, Swept, TypeOK
    <3>3. u.rec.expiresAt > now
      BY <1>0, <1>3, <2>2, <3>1 DEF WellFormed, Task, Session, TypeOK
    <3>4. u.rec.expiresAt \in Nat
      BY <1>3 DEF Task, Session
    <3> QED BY <1>0, <1>2, <2>2, <3>2, <3>3, <3>4 DEF Holds, Covered
  <2>3. CASE stage = "save" /\ pc[p] = "chal" /\ u = task[p] /\ u.ttl > 0
    BY <1>0, <1>2, <2>3 DEF Lodged, Holds, Covered, IsRevoked
  <2>4. CASE stage \in {"idle", "fresh", "held"} \/ (stage = "unlock" /\ u.after # "move")
    BY <1>2, <2>4 DEF Holds
  <2> QED BY <1>1, <2>1, <2>2, <2>3, <2>4 DEF Progress
<1> QED BY <1>4, <1>5 DEF Kept

\* A client is admitted with a slot, or not at all.
LEMMA AdmissionKept ==
  ASSUME Inv, TypeInv', Lodged, NEW p \in Proc,
         HandleNewClient(p) \/ RefuseNewClient(p) \/ SaveNewClient(p)
  PROVE  Kept(p)
<1> DEFINE t == task[p]
<1>0. /\ TypeInv /\ TypeOK /\ sess \in [SID -> Session] /\ t \in Task /\ now \in Nat
      /\ Acts(p) /\ now' = now
  <2>1. Acts(p)
    BY DEF Acts, Entry
  <2> QED BY <2>1, HistoryEffect DEF Inv, TypeInv, TypeOK
<1>1. PICK stage, u : Become(p, stage, u) /\ Progress(p, stage, u)
  BY <1>0, Progresses
<1>2. pc'[p] = stage /\ task'[p] = u /\ u \in Task /\ WellFormed(stage, u)
  <2>1. pc'[p] = stage /\ task'[p] = u
    BY <1>0, <1>1, Others
  <2> QED BY <2>1 DEF TypeInv, WellFormed
<1>3. CASE HandleNewClient(p) \/ RefuseNewClient(p)
  <2>1. pc[p] = "fresh" /\ t.op = "new" /\ UNCHANGED <<sess, known>> /\ pc'[p] \in {"idle", "reserved"}
    <3>1. pc[p] = "fresh" /\ t.op = "new" /\ UNCHANGED <<sess, known>>
      BY <1>3 DEF HandleNewClient, RefuseNewClient, history
    <3>2. \E v : Become(p, "idle", v) \/ Become(p, "reserved", v)
      BY <1>3 DEF HandleNewClient, RefuseNewClient
    <3> QED BY <1>0, <3>1, <3>2 DEF Become, TypeOK
  <2>2. \A s : Owns(p, s) => s \notin known'
    BY <2>1 DEF Owns, Newborn, Locked, Inv, Births
  <2>3. CASE stage = "reserved"
    <3>1. /\ resv' = Reserve(u.id, u.rec.expiresAt) /\ HasRoom(u.id)
          /\ u.ttl = u.rec.expiresAt - now /\ u.id \in SID
      BY <1>1, <1>2, <2>1, <2>3 DEF Progress, Decision, WellFormed
    <3>2. resv'[u.id] = u.rec.expiresAt
      BY <1>0, <3>1 DEF Reserve, Swept, TypeOK
    <3>3. u.rec.expiresAt > now /\ u.rec.expiresAt \in Nat
      BY <1>0, <1>2, <2>3, <3>1 DEF WellFormed, Task, Session
    <3> QED BY <1>0, <1>2, <2>2, <2>3, <3>2, <3>3 DEF Kept, Holds, Covered
  <2>4. CASE stage = "idle"
    BY <1>2, <2>2, <2>4 DEF Kept, Holds
  <2> QED BY <1>2, <2>1, <2>3, <2>4
<1>4. CASE SaveNewClient(p)
  <2>1. /\ pc[p] = "reserved" /\ sess' = [sess EXCEPT ![t.id] = Stored(t.rec, t.ttl)]
        /\ resv' = resv /\ pc' = [pc EXCEPT ![p] = "idle"]
    BY <1>4 DEF SaveNewClient, Become
  <2>2. t.id \in SID /\ \A s : Owns(p, s) => s = t.id
    BY <2>1, WritesOwn DEF Owns, Locked
  <2>3. sess'[t.id].expiresAt = t.rec.expiresAt
    BY <1>0, <2>1, <2>2 DEF Stored, Task, Session
  <2>4. resv[t.id] > now /\ resv[t.id] >= t.rec.expiresAt
    BY <2>1 DEF Lodged, Holds, Covered
  <2>5. ASSUME NEW s \in known', Owns(p, s) PROVE Lodging(s)'
    BY <1>0, <2>1, <2>2, <2>3, <2>4, <2>5 DEF Lodging, Covered
  <2>6. pc'[p] = "idle"
    BY <1>0, <2>1 DEF TypeOK
  <2> QED BY <2>5, <2>6 DEF Kept, Holds
<1> QED BY <1>3, <1>4

\* A saved record has its slot, or its call goes on to settle it.
LEMMA SaveKept ==
  ASSUME Inv, TypeInv', Terms, Slots, Lodged, NEW p \in Proc, SaveSession(p)
  PROVE  Kept(p)
<1> DEFINE t == task[p]
<1>0. /\ TypeInv /\ TypeOK /\ sess \in [SID -> Session] /\ t \in Task /\ t.rec \in Session
      /\ now \in Nat /\ pc[p] = "save" /\ WellFormed("save", t) /\ t.id \in SID /\ t.sid \in SID
  BY DEF Inv, TypeInv, TypeOK, SaveSession, Task, WellFormed
<1>1. /\ sess' = [sess EXCEPT ![t.id] = Stored(t.rec, t.ttl)]
      /\ UNCHANGED <<now, resv, known>>
  BY DEF SaveSession
<1>2. /\ t.after = "none" => Become(p, "unlock", Done(t))
      /\ t.after = "move" => Become(p, "del", t)
      /\ t.after \notin {"none", "move"} => Become(p, "resv", t)
  BY DEF SaveSession, Goto
<1>3. /\ t.after = "none" => pc'[p] = "unlock" /\ task'[p].after = "none"
      /\ t.after = "move" => pc'[p] = "del" /\ task'[p] = t
      /\ t.after \notin {"none", "move"} => pc'[p] = "resv" /\ task'[p] = t
  BY <1>0, <1>2, DoneFields DEF Become, TypeOK
<1>4. sess'[t.id].state = t.rec.state /\ sess'[t.id].expiresAt = t.rec.expiresAt
  BY <1>0, <1>1 DEF Stored, Session
<1>5. Holds(p) /\ (t.after # "release" => resv[t.sid] > now)
  BY <1>0 DEF Lodged, Holds
<1>6. t.after # "release" => t.rec.expiresAt > now
  <2>1. ASSUME t.after # "release" PROVE t.rec.state # "REVOKED"
    BY <1>0, <2>1 DEF Slots, Bookings, Saving
  <2>2. t.rec.state # "REVOKED" => now + t.ttl <= t.rec.expiresAt
    BY <1>0 DEF Terms, Timely, Saving
  <2>3. t.ttl > 0 /\ t.ttl \in Int /\ t.rec.expiresAt \in Nat
    BY <1>0 DEF WellFormed, Task, Session
  <2> QED BY <1>0, <2>1, <2>2, <2>3
<1>7. Holds(p)'
  <2>1. CASE t.after = "none"
    BY <1>3, <2>1 DEF Holds
  <2>2. CASE t.after # "none"
    BY <1>0, <1>1, <1>3, <1>4, <1>5, <1>6, <2>2 DEF Holds, IsRevoked
  <2> QED BY <2>1, <2>2
<1>8. ASSUME NEW s \in known', Owns(p, s) PROVE Lodging(s)'
  <2>1. s = t.sid /\ (t.after # "move" => t.id = s) /\ (t.after = "move" => t.id # s)
    <3>1. t.after = "move" => Newborn(p) /\ t.id \notin known
      BY <1>0 DEF Newborn, Locked, Inv, Births
    <3>2. s = t.id \/ s = t.sid
      BY <1>8 DEF Owns
    <3> QED BY <1>0, <1>1, <1>8, <3>1, <3>2 DEF WellFormed
  <2>2. CASE t.after = "none"
    <3>1. Covered(s, t.rec.expiresAt)
      BY <1>0, <1>5, <2>1, <2>2 DEF Holds, WellFormed
    <3> QED BY <1>1, <1>4, <2>1, <2>2, <3>1 DEF Lodging, Covered
  <2>3. CASE t.after \in {"renew", "exact"}
    <3>1. Settling(p, s)'
      BY <1>3, <2>1, <2>3 DEF Settling
    <3> QED BY <1>1, <1>5, <2>1, <2>3, <3>1 DEF Lodging
  <2>4. CASE t.after = "release"
    <3>1. t.rec.state = "REVOKED"
      BY <1>0, <1>5, <2>4 DEF Holds, IsRevoked
    <3> QED BY <1>4, <2>1, <2>4, <3>1 DEF Lodging, IsRevoked
  <2>5. CASE t.after = "move"
    <3>1. Lodging(s) /\ sess'[s] = sess[s]
      BY <1>0, <1>1, <1>8, <2>1, <2>5 DEF Lodged
    <3>2. \A q \in Proc : Settling(q, s) => Settling(q, s)'
      BY <1>0, <1>2, <2>5 DEF Settling, Become, TypeOK
    <3> QED BY <1>1, <3>1, <3>2 DEF Lodging, HasSession, IsRevoked, Covered
  <2> QED BY <1>0, <2>2, <2>3, <2>4, <2>5 DEF Task
<1> QED BY <1>7, <1>8 DEF Kept

\* A session that was replaced needs no slot.
LEMMA DeleteKept ==
  ASSUME Inv, TypeInv', Lodged, NEW p \in Proc, DeleteOld(p) PROVE Kept(p)
<1> DEFINE t == task[p]
<1>0. /\ TypeInv /\ TypeOK /\ sess \in [SID -> Session] /\ now \in Nat
      /\ pc[p] = "del" /\ WellFormed("del", t) /\ t.id \in SID /\ t.sid \in SID /\ t.after = "move"
  BY DEF Inv, TypeInv, TypeOK, DeleteOld, WellFormed
<1>1. /\ sess' = [sess EXCEPT ![t.sid] = GoneSession(t.sid)] /\ UNCHANGED <<now, resv, known>>
      /\ Become(p, "resv", t)
  BY DEF DeleteOld, Goto, history
<1>2. pc'[p] = "resv" /\ task'[p] = t
  BY <1>0, <1>1 DEF Become, TypeOK
<1>3. t.id \notin known /\ t.sid \in known
  BY <1>0 DEF Newborn, Locked, Inv, Births, Tenants
<1>4. Holds(p)'
  BY <1>0, <1>1, <1>2, <1>3 DEF Lodged, Holds
<1>5. ASSUME NEW s \in known', Owns(p, s) PROVE Lodging(s)'
  <2>1. s = t.sid
    BY <1>1, <1>3, <1>5 DEF Owns
  <2>2. sess'[s].until = 0
    BY <1>0, <1>1, <2>1, GoneFields
  <2> QED BY <1>0, <1>1, <2>2 DEF Lodging, HasSession
<1> QED BY <1>4, <1>5 DEF Kept

\* The slot is given the date of the record, or given back.
LEMMA SettleKept ==
  ASSUME Inv, TypeInv', Slots, Rotations, Lodged, NEW p \in Proc, SettleReservation(p)
  PROVE  Kept(p)
<1> DEFINE t == task[p]
<1>0. /\ TypeInv /\ TypeOK /\ sess \in [SID -> Session] /\ t \in Task /\ now \in Nat
      /\ resv \in [SID -> Nat] /\ t.ttl \in Int /\ t.rec.expiresAt \in Nat
  BY DEF Inv, TypeInv, TypeOK, Task, Session
<1>1. /\ pc[p] = "resv" /\ t.id \in SID /\ t.sid \in SID /\ UNCHANGED <<now, sess, known>>
      /\ \/ t.after = "renew" /\ resv' = Reserve(t.id, now + t.ttl)
         \/ t.after = "exact" /\ resv' = Reserve(t.id, t.rec.expiresAt)
         \/ t.after = "release" /\ resv' = Release(t.id)
         \/ t.after = "move" /\ resv' = MoveReservation(t.sid, t.id, t.rec.expiresAt)
  BY Settled
<1>a. Holds(p) /\ (t.after # "move" => t.id = t.sid)
  BY <1>0, <1>1 DEF Lodged, TypeInv, WellFormed
<1>b. pc[p] = "resv"
  BY <1>1
<1>2. /\ t.after # "release" => /\ resv[t.sid] > now /\ t.rec.expiresAt > now
                                /\ sess[t.id].expiresAt = t.rec.expiresAt
      /\ t.after = "renew" => t.rec.expiresAt = now + t.ttl
      /\ t.after = "release" => t.rec.state = "REVOKED"
  BY <1>a, <1>b DEF Holds, IsRevoked
<1>3. t.after # "release" => resv'[t.id] > now /\ resv'[t.id] >= sess[t.id].expiresAt
  <2>1. CASE t.after \in {"renew", "exact"}
    <3>1. resv' = Reserve(t.id, t.rec.expiresAt)
      BY <1>1, <1>2, <2>1
    <3>a. resv[t.id] # 0
      BY <1>0, <1>1, <1>2, <1>a, <2>1
    <3>2. resv'[t.id] = t.rec.expiresAt
      BY <1>0, <1>1, <3>1, <3>a DEF Reserve
    <3> QED BY <1>0, <1>1, <1>2, <2>1, <3>2 DEF Session
  <2>2. CASE t.after = "move"
    <3>1. resv' = MoveReservation(t.sid, t.id, t.rec.expiresAt) /\ resv[t.sid] # 0
      BY <1>0, <1>1, <1>2, <2>2
    <3>2. resv'[t.id] = t.rec.expiresAt
      BY <1>0, <1>1, <3>1 DEF MoveReservation
    <3> QED BY <1>0, <1>1, <1>2, <2>2, <3>2 DEF Session
  <2> QED BY <1>1, <2>1, <2>2
<1>4. pc'[p] = "unlock" /\ task'[p].id = t.id /\ task'[p].after = t.after
  <2>1. Become(p, "unlock", Done(t))
    BY DEF SettleReservation, Goto
  <2> QED BY <1>0, <2>1, DoneFields DEF Become, TypeOK
<1>5. Holds(p)'
  BY <1>1, <1>3, <1>4 DEF Holds, Covered
<1>6. ASSUME NEW s \in known', Owns(p, s) PROVE Lodging(s)'
  <2>1. s = t.sid
    <3>1. Newborn(p) => t.after = "move" /\ t.id \notin known
      BY <1>1 DEF Newborn, Inv, Births
    <3> QED BY <1>1, <1>6, <3>1 DEF Owns
  <2>2. CASE t.after = "move"
    <3>1. sess[s].until = 0
      BY <1>1, <2>1, <2>2 DEF Rotations, Replaced
    <3> QED BY <1>0, <1>1, <3>1 DEF Lodging, HasSession
  <2>3. CASE t.after = "release"
    <3>1. sess[s].state = "REVOKED"
      BY <1>1, <1>2, <1>a, <2>1, <2>3 DEF Slots, Bookings
    <3> QED BY <1>1, <3>1 DEF Lodging, IsRevoked
  <2>4. CASE t.after \notin {"move", "release"}
    BY <1>1, <1>3, <1>a, <2>1, <2>4 DEF Lodging, Covered
  <2> QED BY <2>2, <2>3, <2>4
<1> QED BY <1>5, <1>6 DEF Kept

\* A rotation hands out a session that has its slot.
LEMMA UnlockKept ==
  ASSUME Inv, TypeInv', Lodged, NEW p \in Proc, Unlock(p) PROVE Kept(p)
<1> DEFINE t == task[p]
<1>1. /\ pc[p] = "unlock" /\ UNCHANGED <<now, sess, resv>> /\ Become(p, "idle", NoTask)
      /\ known' = IF t.after = "move" THEN known \cup {t.id} ELSE known
  BY DEF Unlock, Return, store
<1>2. pc'[p] = "idle" /\ \A q \in Proc \ {p} : pc'[q] = pc[q] /\ task'[q] = task[q]
  BY <1>1, Others DEF Inv
<1>3. Holds(p)'
  BY <1>2 DEF Holds
<1>4. ASSUME NEW s \in known', Owns(p, s) PROVE Lodging(s)'
  <2>1. CASE s \in known
    <3>1. Lodging(s)
      BY <2>1 DEF Lodged
    <3>2. \A q \in Proc : Settling(q, s) => Settling(q, s)'
      BY <1>1, <1>2 DEF Settling
    <3> QED BY <1>1, <3>1, <3>2 DEF Lodging, HasSession, IsRevoked, Covered
  <2>2. CASE s \notin known
    <3>1. s = t.id /\ t.after = "move"
      BY <1>1, <1>4, <2>2
    <3>2. Covered(s, sess[s].expiresAt)
      BY <1>1, <3>1 DEF Lodged, Holds
    <3> QED BY <1>1, <3>2 DEF Lodging, Covered
  <2> QED BY <2>1, <2>2
<1> QED BY <1>3, <1>4 DEF Kept

\* A step of a call keeps usable sessions lodged.
LEMMA ActLodged ==
  ASSUME Inv, TypeInv', Terms, Slots, Rotations, Lodged, Faults = {}, "transition" \notin Ops,
         ~(WaitRoom /\ Captcha), NEW p \in Proc, Acts(p)
  PROVE  Lodged'
<1>1. Kept(p)
  BY Faultless, QuietKept, AdmissionKept, SaveKept, DeleteKept, SettleKept, UnlockKept
<1>2. \A q \in Proc \ {p} : Holds(q)'
  BY OthersHold
<1>3. ASSUME NEW s \in known', ~Owns(p, s) PROVE Lodging(s)'
  <2>0. now' = now /\ s \in SID
    BY HistoryEffect DEF Inv, TypeInv, TypeOK
  <2>1. s \in known /\ sess'[s] = sess[s] /\ (resv[s] > now => resv'[s] = resv[s])
    BY <1>3, <2>0, OwnEffect
  <2>2. Lodging(s)
    BY <2>1 DEF Lodged
  <2>3. ASSUME NEW q \in Proc, Settling(q, s) PROVE Settling(q, s)'
    <3>1. q # p
      BY <1>3, <2>3, WritesOwn DEF Settling
    <3>2. PICK stage, u : Become(p, stage, u)
      BY Progresses DEF Inv
    <3> QED BY <2>3, <3>1, <3>2, Others DEF Settling, Inv
  <2> QED BY <2>0, <2>1, <2>2, <2>3 DEF Lodging, HasSession, IsRevoked, Covered
<1> QED BY <1>1, <1>2, <1>3 DEF Kept, Lodged

\* So does every step: a slot lapses no sooner than its session.
LEMMA NextLodged ==
  ASSUME Inv, Inv', Terms, Slots, Rotations, Lodged, Faults = {}, "transition" \notin Ops, ~Slow,
         ~(WaitRoom /\ Captcha), [Next]_vars
  PROVE  Lodged'
<1>0. TypeInv /\ TypeInv' /\ TypeOK
  BY DEF Inv, TypeInv
<1>1. CASE Rests /\ now' = now
  <2>1. /\ UNCHANGED <<now, sess, pc, task, known>>
        /\ \A s \in SID : resv[s] > now => resv'[s] = resv[s]
    BY <1>0, <1>1 DEF Rests, TypeOK
  <2>2. \A q \in Proc : pc[q] # "idle" => task[q].id \in SID /\ task[q].sid \in SID
    BY <1>0 DEF TypeInv, WellFormed
  <2>3. ASSUME NEW s \in known' PROVE Lodging(s)'
    <3>1. Lodging(s) /\ s \in SID
      BY <1>0, <2>1 DEF Lodged, TypeOK
    <3>2. \A q \in Proc : Settling(q, s) => Settling(q, s)'
      BY <2>1 DEF Settling
    <3> QED BY <2>1, <3>1, <3>2 DEF Lodging, HasSession, IsRevoked, Covered
  <2>4. ASSUME NEW q \in Proc PROVE Holds(q)'
    <3>1. Holds(q)
      BY DEF Lodged
    <3> QED BY <2>1, <2>2, <3>1 DEF Holds, Covered, IsRevoked
  <2> QED BY <2>3, <2>4 DEF Lodged
<1>2. CASE Rests /\ now' # now
  <2>1. /\ UNCHANGED <<pc, task, known>> /\ now' > now /\ \A q \in Proc : pc[q] = "idle"
        /\ \A s \in SID : sess'[s] = sess[s] \/ sess'[s] = GoneSession(s)
        /\ \A s \in SID : resv[s] > now => resv'[s] = resv[s]
    BY <1>0, <1>2 DEF Rests, TypeInv, TypeOK
  <2>2. ASSUME NEW s \in known', HasSession(s)', ~IsRevoked(sess[s])' PROVE Lodging(s)'
    <3>1. s \in known /\ s \in SID /\ now \in Nat /\ now' \in Nat
      BY <1>0, <2>1 DEF TypeOK, TypeInv
    <3>2. sess'[s] = sess[s] /\ sess[s].until > now'
      <4>1. GoneSession(s).until = 0
        BY <1>0, <3>1, GoneFields
      <4> QED BY <2>1, <2>2, <3>1, <4>1 DEF HasSession
    <3>3. sess[s].until <= sess[s].expiresAt /\ sess[s].until \in Nat /\ sess[s].expiresAt \in Nat
      BY <1>0, <2>2, <3>1, <3>2 DEF Terms, Timely, IsRevoked, TypeOK, Session
    <3>4. ~\E q \in Proc : Settling(q, s)
      BY <2>1 DEF Settling
    <3>5. Covered(s, sess[s].expiresAt)
      BY <2>1, <2>2, <3>1, <3>2, <3>3, <3>4 DEF Lodged, Lodging, HasSession, IsRevoked
    <3>6. resv'[s] = resv[s] /\ resv[s] \in Nat /\ resv[s] >= sess[s].expiresAt
      BY <1>0, <2>1, <3>1, <3>5 DEF Covered, TypeOK
    <3> QED BY <3>1, <3>2, <3>3, <3>6 DEF Lodging, Covered
  <2>3. \A s \in known' : Lodging(s)'
    BY <2>2 DEF Lodging
  <2>4. \A q \in Proc : Holds(q)'
    BY <2>1 DEF Holds
  <2> QED BY <2>3, <2>4 DEF Lodged
<1> QED BY <1>0, <1>1, <1>2, Steps, ActLodged

\* Usable sessions are lodged throughout.
LEMMA LodgedAlways ==
  ASSUME Faults = {}, "transition" \notin Ops, ~Slow, ~(WaitRoom /\ Captcha)
  PROVE  Spec => []Lodged
<1>1. Init => Lodged
  BY DEF Init, Lodged, Holds
<1>2. Inv /\ Inv' /\ Terms /\ Slots /\ Rotations /\ Lodged /\ [Next]_vars => Lodged'
  BY NextLodged
<1> QED BY <1>1, <1>2, InvAlways, TermsAlways, SlotsAlways, RotationsAlways, SpecLapses, PTL DEF Spec

\* No more sessions are usable at a time than MaxConcurrentSessions: where calls take no
\* time and meet no failure, no operator moves sessions by hand, and one gate alone is
\* configured, each has a slot of its own (handleNewClient, handleWaitElapsed, Validate,
\* RotateSession, RevokeSession and the store's reservations).
THEOREM CapacityHeld ==
  ASSUME Faults = {}, "transition" \notin Ops, ~Slow, ~(WaitRoom /\ Captcha)
  PROVE  Spec => []CapacityBound
<1>1. ASSUME Inv, Lodged, SlotsBounded(resv) PROVE CapacityBound
  <2> DEFINE U == {s \in SID : Usable(s, sess[s], now)}
  <2>1. U \subseteq Members(resv)
    <3> SUFFICES ASSUME NEW s \in SID, Usable(s, sess[s], now) PROVE resv[s] # 0
      BY DEF Members
    <3>1. resv[s] > now /\ now \in Nat
      BY <1>1 DEF Usable, Lodged, Lodging, HasSession, Inv, TypeInv, TypeOK
    <3> QED BY <3>1
  <2>2. IsFiniteSet(U) /\ Cardinality(U) <= Cardinality(Members(resv))
    BY <1>1, <2>1, FS_Subset DEF SlotsBounded
  <2>3. Cardinality(U) \in Nat /\ Cardinality(Members(resv)) \in Nat /\ MaxSessions \in Nat
    BY <1>1, <2>2, FS_CardinalityType, ConfigAssumption DEF SlotsBounded, ValidConfig
  <2> QED BY <1>1, <2>2, <2>3 DEF CapacityBound, SlotsBounded
<1> QED BY <1>1, InvAlways, LodgedAlways, SlotsNeverOverbooked, SpecLapses, PTL
-----------------------------------------------------------------------------
(* The lock.  What Admission does with the lock of a session is what       *)
(* LeaseLock allows, and SessionLock implements.                           *)

\* The calls on s whose handler is running: the lock is taken and not yet being released.
Running(s) == {p \in Proc : pc[p] \in Locked \ {"unlock"} /\ task[p].sid = s}

Lease(s) == INSTANCE LeaseLock WITH lock <- lock[s], inside <- Running(s)

\* A call joins or leaves those running on s when its own place changes.
LEMMA RunningSteps ==
  ASSUME TypeInv, NEW p \in Proc, NEW stage, NEW u, Become(p, stage, u), NEW s \in SID
  PROVE  Running(s)' = IF stage \in Locked \ {"unlock"} /\ u.sid = s
                         THEN Running(s) \cup {p} ELSE Running(s) \ {p}
  BY Others DEF Running

\* Taking the lock: the handler runs from here on.
LEMMA TakesLock ==
  ASSUME TypeInv, NEW p \in Proc, NEW s \in SID, NEW o \in SID, NEW u,
         lock[o] = Free, lock' = [lock EXCEPT ![o] = p], pc[p] \in {"idle", "fresh"},
         Become(p, "held", u), u.sid = o
  PROVE  Lease(s)!Acquire(p) \/ UNCHANGED <<lock[s], Running(s)>>
<1>1. lock \in [SID -> Proc \cup {Free, Orphan}] /\ p \notin Running(s)
  BY DEF TypeInv, TypeOK, Running, Locked
<1>2. Running(s)' = IF o = s THEN Running(s) \cup {p} ELSE Running(s) \ {p}
  BY RunningSteps DEF Locked
<1>3. CASE o = s
  BY <1>1, <1>2, <1>3 DEF Lease!Acquire
<1>4. CASE o # s
  BY <1>1, <1>2, <1>4
<1> QED BY <1>3, <1>4

\* A step of the handler: it goes on under the lock, or is done with everything else.
LEMMA UnderLock ==
  ASSUME TypeInv, NEW p \in Proc, NEW s \in SID, NEW stage \in Locked, NEW u,
         pc[p] \in Locked \ {"unlock"}, Become(p, stage, u), u.sid = task[p].sid, UNCHANGED lock
  PROVE  Lease(s)!Leave(p) \/ UNCHANGED <<lock[s], Running(s)>>
<1>1. p \in Running(s) <=> task[p].sid = s
  BY DEF Running
<1>2. Running(s)' = IF stage # "unlock" /\ task[p].sid = s
                      THEN Running(s) \cup {p} ELSE Running(s) \ {p}
  BY RunningSteps
<1> QED BY <1>1, <1>2 DEF Lease!Leave

\* What the handlers do between taking the lock and releasing it.
LEMMA HandlerSteps ==
  ASSUME TypeInv, NEW p \in Proc,
         \/ Decide(p)
         \/ WriteChallenge(p) \/ SaveSession(p) \/ DeleteOld(p) \/ SettleReservation(p)
         \/ ChallengeWriteFails(p) \/ SaveFails(p) \/ DeleteFails(p) \/ ReservationFails(p)
  PROVE  /\ pc[p] \in Locked \ {"unlock"} /\ UNCHANGED lock
         /\ \E stage \in Locked : \E u : Become(p, stage, u) /\ u.sid = task[p].sid
<1>0. task[p] \in Task
  BY DEF TypeInv, TypeOK
<1>1. ASSUME Decide(p)
      PROVE  /\ pc[p] \in Locked \ {"unlock"} /\ UNCHANGED lock
             /\ \E stage \in Locked : \E u : Become(p, stage, u) /\ u.sid = task[p].sid
  <2>1. CASE ReturnEarly(p)
    BY <2>1 DEF ReturnEarly, Locked
  <2>2. ASSUME NEW stage, NEW u, Become(p, stage, u), Decision(p, stage, u)
        PROVE  pc[p] = "held" /\ UNCHANGED lock /\ stage \in Locked /\ u.sid = task[p].sid
    BY <2>2 DEF Decision, Locked
  <2>3. CASE \E stage, u : Become(p, stage, u) /\ Decision(p, stage, u)
    <3>1. PICK stage, u : Become(p, stage, u) /\ Decision(p, stage, u)
      BY <2>3
    <3>2. pc[p] = "held" /\ UNCHANGED lock /\ stage \in Locked /\ u.sid = task[p].sid
      BY <2>2, <3>1
    <3> QED BY <3>1, <3>2 DEF Locked
  <2> QED BY <1>1, <2>1, <2>3, Decisions
<1>2. Done(task[p]).sid = task[p].sid /\ [Done(task[p]) EXCEPT !.after = "none"].sid = task[p].sid
  BY DEF Done, NoTask
<1>3. ASSUME NEW stage \in Locked, Goto(p, stage)
      PROVE  \E st \in Locked : \E u : Become(p, st, u) /\ u.sid = task[p].sid
  BY <1>2, <1>3 DEF Goto
<1>4. ASSUME Abandon(p)
      PROVE  \E st \in Locked : \E u : Become(p, st, u) /\ u.sid = task[p].sid
  BY <1>2, <1>4 DEF Abandon, Locked
<1>5. CASE WriteChallenge(p) \/ ChallengeWriteFails(p)
  <2>1. AfterChallenge(task[p]) \in Locked
    BY DEF AfterChallenge, Locked
  <2>2. pc[p] = "chal" /\ UNCHANGED lock
    BY <1>5 DEF WriteChallenge, ChallengeWriteFails
  <2>3. Goto(p, AfterChallenge(task[p])) \/ Abandon(p)
    BY <1>5 DEF WriteChallenge, ChallengeWriteFails
  <2> QED BY <1>3, <1>4, <2>1, <2>2, <2>3 DEF Locked
<1>6. CASE SaveSession(p) \/ SaveFails(p) \/ DeleteOld(p) \/ DeleteFails(p) \/ SettleReservation(p) \/ ReservationFails(p)
  <2>1. pc[p] \in {"save", "del", "resv"} /\ UNCHANGED lock
    BY <1>6 DEF SaveSession, SaveFails, DeleteOld, DeleteFails, SettleReservation, ReservationFails
  <2>2. (\E stage \in Locked : Goto(p, stage)) \/ Abandon(p)
    BY <1>6 DEF SaveSession, SaveFails, DeleteOld, DeleteFails, SettleReservation, ReservationFails, Locked
  <2> QED BY <1>3, <1>4, <2>1, <2>2 DEF Locked
<1> QED BY <1>1, <1>5, <1>6

\* What a request does without the lock.
Outside(p) ==
  \/ \E s \in SID : Resolve(p, s) \/ ResolveNew(p, s)
  \/ EvaluateOnly(p) \/ HandleNewClient(p) \/ RefuseNewClient(p) \/ SaveNewClient(p)
  \/ ReserveFails(p) \/ SaveNewClientFails(p)

\* What a step of a call does to the lock of s, and to those running on s.
LEMMA LockEffect ==
  ASSUME Inv, NEW p \in Proc, Acts(p), NEW s \in SID
  PROVE  \/ Lease(s)!Acquire(p) \/ Lease(s)!Leave(p) \/ Lease(s)!Release(p) \/ Lease(s)!Forsake(p)
         \/ UNCHANGED <<lock[s], Running(s)>>
<1>0. /\ TypeInv /\ lock \in [SID -> Proc \cup {Free, Orphan}]
      /\ pc[p] # "idle" => task[p].sid \in SID
  BY DEF Inv, TypeInv, TypeOK, WellFormed
<1>h. p \in Running(s) => lock[s] = p
  BY DEF Inv, LockHeld, Running
<1>1. CASE EvaluateWaiting(p)
  <2> DEFINE o == task[p].sid
             u == [NoTask EXCEPT !.op = "wait", !.sid = o, !.id = o]
  <2>1. /\ pc[p] = "fresh" /\ lock[o] = Free /\ lock' = [lock EXCEPT ![o] = p]
        /\ Become(p, "held", u) /\ u.sid = o /\ o \in SID
    BY <1>0, <1>1 DEF EvaluateWaiting, NoTask
  <2> HIDE DEF o, u
  <2> QED BY <1>0, <2>1, TakesLock
<1>2. ASSUME NEW op \in Ops, NEW o \in SID, Call(p, op, o)
      PROVE  Lease(s)!Acquire(p) \/ UNCHANGED <<lock[s], Running(s)>>
  <2> DEFINE u == [NoTask EXCEPT !.op = op, !.sid = o, !.id = o]
  <2>1. /\ pc[p] = "idle" /\ lock[o] = Free /\ lock' = [lock EXCEPT ![o] = p]
        /\ Become(p, "held", u) /\ u.sid = o
    BY <1>2 DEF Call, MayEnter, NoTask
  <2> HIDE DEF u
  <2> QED BY <1>0, <2>1, TakesLock
<1>3. CASE Unlock(p) \/ UnlockFails(p)
  <2>1. PICK v \in {Free, Orphan} :
          /\ lock' = [lock EXCEPT ![task[p].sid] = IF @ = p THEN v ELSE @]
          /\ v = Free \/ v = Orphan
    BY <1>3 DEF Unlock, UnlockFails
  <2>2. pc[p] = "unlock" /\ Become(p, "idle", NoTask)
    BY <1>3 DEF Unlock, UnlockFails, Return
  <2>3. p \notin Running(s)
    BY <2>2 DEF Running
  <2>4. Running(s)' = Running(s)
    BY <1>0, <2>2, <2>3, RunningSteps DEF Locked
  <2> QED BY <1>0, <2>1, <2>2, <2>3, <2>4 DEF Lease!Release, Lease!Forsake
<1>4. CASE Crash(p)
  <2>1. Become(p, "idle", NoTask) /\ lock' = [o \in SID |-> IF lock[o] = p THEN Orphan ELSE lock[o]]
    BY <1>4 DEF Crash
  <2>2. Running(s)' = Running(s) \ {p}
    BY <1>0, <2>1, RunningSteps DEF Locked
  <2> QED BY <1>0, <1>h, <2>1, <2>2 DEF Lease!Forsake
<1>5. CASE Outside(p)
  <2>a. ASSUME NEW o \in SID, Resolve(p, o) \/ ResolveNew(p, o)
        PROVE  pc[p] = "idle" /\ UNCHANGED lock /\ \E u : Become(p, "fresh", u)
    BY <2>a DEF Resolve, ResolveNew
  <2>b. ASSUME HandleNewClient(p)
        PROVE  pc[p] = "fresh" /\ UNCHANGED lock /\ \E u : Become(p, "reserved", u)
    BY <2>b DEF HandleNewClient
  <2>c. ASSUME EvaluateOnly(p) \/ RefuseNewClient(p) \/ ReserveFails(p)
        PROVE  pc[p] = "fresh" /\ UNCHANGED lock /\ \E u : Become(p, "idle", u)
    BY <2>c DEF EvaluateOnly, RefuseNewClient, ReserveFails
  <2>d. ASSUME SaveNewClient(p) \/ SaveNewClientFails(p)
        PROVE  pc[p] = "reserved" /\ UNCHANGED lock /\ \E u : Become(p, "idle", u)
    BY <2>d DEF SaveNewClient, SaveNewClientFails
  <2>1. PICK stage, u : stage \in {"idle", "fresh", "reserved"} /\ Become(p, stage, u)
    BY <1>5, <2>a, <2>b, <2>c, <2>d DEF Outside
  <2>2. pc[p] \in {"idle", "fresh", "reserved"} /\ UNCHANGED lock
    BY <1>5, <2>a, <2>b, <2>c, <2>d DEF Outside
  <2>3. p \notin Running(s)
    BY <2>2 DEF Running, Locked
  <2>4. Running(s)' = Running(s)
    BY <1>0, <2>1, <2>3, RunningSteps DEF Locked
  <2> QED BY <2>2, <2>4
<1>6. ASSUME \/ Decide(p)
             \/ WriteChallenge(p) \/ SaveSession(p) \/ DeleteOld(p) \/ SettleReservation(p)
             \/ ChallengeWriteFails(p) \/ SaveFails(p) \/ DeleteFails(p) \/ ReservationFails(p)
      PROVE  Lease(s)!Leave(p) \/ UNCHANGED <<lock[s], Running(s)>>
  <2>1. pc[p] \in Locked \ {"unlock"} /\ UNCHANGED lock
    BY <1>0, <1>6, HandlerSteps
  <2>2. PICK stage, u : stage \in Locked /\ Become(p, stage, u) /\ u.sid = task[p].sid
    BY <1>0, <1>6, HandlerSteps
  <2> QED BY <1>0, <2>1, <2>2, UnderLock
<1> QED
  BY <1>1, <1>2, <1>3, <1>4, <1>5, <1>6 DEF Acts, Entry, Write, Fail, Outside

\* Whatever fails or dies, the lock of a session is taken only when it is free, it is not
\* taken from a call whose handler still runs, and it is freed by time alone once its
\* holder is gone (withSessionLock as admission.go, challenge.go and session.go call it):
\* the specification that SessionLock implements.  A lease that lapses under a running
\* handler (LeaseLapses, a step of LapsingSpec but not of Spec) breaks it.
THEOREM LocksAreLeases == ASSUME NEW s \in SID PROVE Spec => Lease(s)!Spec
<1>1. Init => Lease(s)!Init
  BY DEF Init, Lease!Init, Running, Locked
<1>2. ASSUME Inv, [Next]_vars PROVE [Lease(s)!Next]_<<lock[s], Running(s)>>
  <2>0. lock \in [SID -> Proc \cup {Free, Orphan}]
    BY <1>2 DEF Inv, TypeInv, TypeOK
  <2>1. CASE UNCHANGED <<lock, pc, task>>
    BY <2>1 DEF Running
  <2>2. ASSUME NEW p \in Proc, Acts(p) PROVE [Lease(s)!Next]_<<lock[s], Running(s)>>
    BY <1>2, <2>2, LockEffect DEF Lease!Next
  <2>3. ASSUME NEW o \in SID, AcquireFails(o) \/ OrphanExpires(o)
        PROVE  [Lease(s)!Next]_<<lock[s], Running(s)>>
    <3>1. UNCHANGED Running(s)
      BY <2>3 DEF AcquireFails, OrphanExpires, Running
    <3> QED
      BY <2>0, <2>3, <3>1 DEF AcquireFails, OrphanExpires, Lease!Next, Lease!Strand, Lease!Lapse
  <2>4. CASE Tick \/ Janitor \/ UNCHANGED vars
    BY <2>1, <2>4 DEF Tick, Janitor, vars
  <2> QED BY <1>2, <2>2, <2>3, <2>4 DEF Next, Acts
<1> QED BY <1>1, <1>2, InvAlways, PTL DEF Spec, Lease!Spec
=============================================================================
