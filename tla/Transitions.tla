---------------------------- MODULE Transitions ----------------------------
(***************************************************************************)
(* The states and events of a session and the table of legal moves         *)
(* (admission.go).                                                         *)
(***************************************************************************)

State == {"NEW", "WAITING", "CHALLENGE_REQUIRED", "ADMITTED",
          "EXPIRED", "REVOKED", "ROTATING"}

Event == {"NEW_CLIENT", "WAIT_ELAPSED", "CHALLENGE_REQUIRED",
          "CHALLENGE_SOLVED", "CHALLENGE_FAILED", "EXPIRE", "REVOKE", "ROTATE"}

IsLegalTransition(from, event, to) ==
  \/ /\ event = "NEW_CLIENT"
     /\ from = "NEW"
     /\ to \in {"WAITING", "CHALLENGE_REQUIRED", "ADMITTED"}
  \/ /\ event = "WAIT_ELAPSED"
     /\ from = "WAITING"
     /\ to \in {"CHALLENGE_REQUIRED", "ADMITTED"}
  \/ /\ event = "CHALLENGE_REQUIRED"
     /\ from \in {"WAITING", "CHALLENGE_REQUIRED"}
     /\ to = "CHALLENGE_REQUIRED"
  \/ /\ event = "CHALLENGE_SOLVED"
     /\ from = "CHALLENGE_REQUIRED"
     /\ to = "ADMITTED"
  \/ /\ event = "CHALLENGE_FAILED"
     /\ from = "CHALLENGE_REQUIRED"
     /\ to \in {"WAITING", "REVOKED"}
  \/ /\ event = "ROTATE"
     /\ \/ from = "ADMITTED" /\ to \in {"ROTATING", "ADMITTED"}
        \/ from = "ROTATING" /\ to = "ADMITTED"
  \/ /\ event = "EXPIRE"
     /\ from \notin {"EXPIRED", "REVOKED"}
     /\ to = "EXPIRED"
  \/ /\ event = "REVOKE"
     /\ from # "REVOKED"
     /\ to = "REVOKED"
=============================================================================
