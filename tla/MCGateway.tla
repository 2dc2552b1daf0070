----------------------------- MODULE MCGateway -----------------------------
(***************************************************************************)
(* Gateway for TLC.  Two tabs and one event, so that the tabs get into     *)
(* each other's way; then one tab and three events, which reach every      *)
(* branch of the handlers in every kind of deployment.                     *)
(***************************************************************************)
EXTENDS Gateway

Deployment(waitRoom, captcha, fiber, failClosed, tabs, events) ==
  [waitRoom |-> waitRoom, captcha |-> captcha, fiber |-> fiber, failClosed |-> failClosed,
   tabs |-> tabs, events |-> events]

Deployments ==
  {Deployment(TRUE, TRUE, FALSE, TRUE, Tab, 1)}
    \cup {Deployment(TRUE, TRUE, FALSE, TRUE, {t}, 3) : t \in Html}
    \cup {Deployment(FALSE, TRUE, TRUE, TRUE, {t}, 3) : t \in Html}
    \cup {Deployment(TRUE, FALSE, FALSE, FALSE, {t}, 3) : t \in Tab \ Html}
=============================================================================
