---------------------------- MODULE MCEnrollment ----------------------------
(* Instances of Enrollment for TLC.  Two requests can race on one code, or one *)
(* can wait for the write lock while the other is at the gateway with it; two  *)
(* codes and two devices make the wrong one possible.  The proofs cover any    *)
(* number.                                                                     *)
EXTENDS Enrollment, TLC

Symmetry == Permutations(Codes) \cup Permutations(Devices) \cup Permutations(Requests)
=============================================================================
