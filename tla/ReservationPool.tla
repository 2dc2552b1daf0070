--------------------------- MODULE ReservationPool ---------------------------
(***************************************************************************)
(* What a SessionReservationStore (store/store.go) promises the admission  *)
(* engine: at most Limit sessions hold an unexpired reservation, and a     *)
(* session is turned away only when that many others do.                   *)
(***************************************************************************)
EXTENDS Naturals, FiniteSets

CONSTANTS SID, Limit

VARIABLES
  held,      \* sessions with an unexpired reservation
  answer     \* what the last call returned: "none", "granted" or "refused"

Init == held = {} /\ answer = "none"

\* A reservation dated in the past is granted, and gone at once.
Grant(s) == /\ s \in held \/ Cardinality(held) < Limit
            /\ held' \in {held \cup {s}, held \ {s}}
            /\ answer' = "granted"

Refuse(s) == /\ s \notin held
             /\ Cardinality(held) >= Limit
             /\ answer' = "refused"
             /\ UNCHANGED held

Move(old, new) == /\ held' \in {(held \ {old}) \cup {new}, held \ {old, new}}
                  /\ Cardinality(held') <= Limit
                  /\ answer' = "none"

\* Released, or lapsed.
Shrink == held' \in SUBSET held /\ answer' = "none"

Next == \/ \E s \in SID : Grant(s) \/ Refuse(s)
        \/ \E old, new \in SID : Move(old, new)
        \/ Shrink

Spec == Init /\ [][Next]_<<held, answer>>
=============================================================================
