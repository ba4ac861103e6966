---------------------------- MODULE MCProspectPii ----------------------------
(* Instances of ProspectPii for TLC.  Sessions are interchangeable; so are   *)
(* the addresses of a row.                                                   *)
EXTENDS ProspectPii, TLC

Symmetry == Permutations(Sessions) \union Permutations(Emails)
=============================================================================
