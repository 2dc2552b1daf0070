----------------------------- MODULE LeaseLock -----------------------------
(***************************************************************************)
(* What a caller of withSessionLock relies on, for one lock: a goroutine   *)
(* takes the lock only when it is free, nothing takes the lock from it     *)
(* while its function is running (the lock goes by release, or by its TTL, *)
(* only once the function has returned), and a lock whose holder is gone   *)
(* (Orphan) is freed by time alone.                                        *)
(***************************************************************************)
CONSTANTS Proc, Free, Orphan

VARIABLES
  lock,      \* who has it
  inside     \* the goroutines whose function is running

Init == lock = Free /\ inside = {}

Acquire(p) == lock = Free /\ lock' = p /\ inside' = inside \cup {p}
Leave(p) == p \in inside /\ inside' = inside \ {p} /\ UNCHANGED lock
Release(p) == lock = p /\ p \notin inside /\ lock' = Free /\ UNCHANGED inside
Forsake(p) == lock = p /\ lock' = Orphan /\ inside' = inside \ {p}   \* died, or failed to release
Strand == lock = Free /\ lock' = Orphan /\ UNCHANGED inside          \* taken, but nobody was told
Lapse == lock = Orphan /\ lock' = Free /\ UNCHANGED inside

Next == \/ \E p \in Proc : Acquire(p) \/ Leave(p) \/ Release(p) \/ Forsake(p)
        \/ Strand
        \/ Lapse

Spec == Init /\ [][Next]_<<lock, inside>>

\* What the callers are after: a running function has the lock, so it runs alone.
Exclusive == inside \subseteq Proc /\ inside \subseteq {lock}
=============================================================================
