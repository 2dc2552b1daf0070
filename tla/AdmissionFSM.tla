---------------------------- MODULE AdmissionFSM ----------------------------
(***************************************************************************)
(* What the admission engine promises of a session, whatever the           *)
(* interleaving of the requests that act on it: the state recorded under a *)
(* session id only ever moves along the edges that IsLegalTransition       *)
(* (admission.go) lists, the table both AdmissionEngine.Transition and the *)
(* documentation of the state machine are built on.                        *)
(***************************************************************************)

EXTENDS Transitions

CONSTANT SID        \* session identifiers

VARIABLE st         \* st[s]: the state last recorded for session s

-----------------------------------------------------------------------------

Init == st = [s \in SID |-> "NEW"]

Move(s) == \E to \in State :
             /\ st' = [st EXCEPT ![s] = to]
             /\ \E event \in Event : IsLegalTransition(st[s], event, to)

Next == \E s \in SID : Move(s)

Spec == Init /\ [][Next]_st
=============================================================================
