-------------------------- MODULE MCUserEmailQuota --------------------------
(* Instances of UserEmailQuota for TLC.                                     *)
EXTENDS UserEmailQuota, TLC

Symmetry == Permutations(Sessions)
=============================================================================
