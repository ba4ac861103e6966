--------------------------- MODULE MCOutreachSend ---------------------------
(* Small instances of OutreachSend for TLC.                                 *)
EXTENDS OutreachSendInvariant, TLC

CONSTANTS email1, email2, ann, bob

\* Two touches of one prospect, created in one transaction; email1 is a user's.
Rows2 == {email1, email2}
ProspectOf2 == (email1 :> ann) @@ (email2 :> ann)
UserOwned2 == {email1}
Touch2 == (email1 :> 1) @@ (email2 :> 2)
CreatedAt2 == (email1 :> 1) @@ (email2 :> 1)

\* email2 is older than email1 and of another prospect.
ProspectOfTwo == (email1 :> ann) @@ (email2 :> bob)
CreatedAtTwo == (email1 :> 2) @@ (email2 :> 1)

TickSymmetry == Permutations(Tick)
=============================================================================
