---------------------------- MODULE MCAdmission ----------------------------
(* Instances of Admission for TLC.  Goroutines and identifiers are          *)
(* interchangeable in every safety property, so their permutations are.     *)
EXTENDS Admission, TLC

Symmetry == Permutations(Proc) \cup Permutations(SID) \cup Permutations(CID)
=============================================================================
