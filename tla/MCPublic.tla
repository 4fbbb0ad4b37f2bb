------------------------------ MODULE MCPublic ------------------------------
(* Values of the constants for the run of PublicView: one monitor in a group, *)
(* the others in none.                                                        *)
EXTENDS PublicView, TLC

CONSTANT g1

MCGrouped == CHOOSE m \in Monitor : TRUE
MCGroupOf == [m \in Monitor |-> IF m = MCGrouped THEN g1 ELSE NoGroup]
MCSlug == {"default", "s1"}
=============================================================================
