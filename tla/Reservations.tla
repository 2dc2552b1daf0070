---------------------------- MODULE Reservations ----------------------------
(***************************************************************************)
(* What the two stores' capacity reservations have in common: the sessions *)
(* of one namespace, the limit their callers pass (MaxConcurrentSessions), *)
(* and expiries, kept as the time left to them.                            *)
(***************************************************************************)
EXTENDS Naturals, FiniteSets

CONSTANTS SID, Limit, MaxTTL

ASSUME PoolAssumption ==
  /\ IsFiniteSet(SID)
  /\ Limit \in Nat \ {0}
  /\ MaxTTL \in Nat
=============================================================================
