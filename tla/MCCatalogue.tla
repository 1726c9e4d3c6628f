---------------------------- MODULE MCCatalogue ----------------------------
(***************************************************************************)
(* A network with two providers' plans of the promotion and one with an    *)
(* ordinary plan, for TLC.                                                 *)
(***************************************************************************)
EXTENDS Catalogue, TLC

CONSTANTS p1, p2, p3, u1, u2, s1, s2, mtn, airtel

MCNetworkOf == p1 :> mtn @@ p2 :> mtn @@ p3 :> airtel

MCMargins == {[amount |-> 50, percent |-> FALSE], [amount |-> 50, percent |-> TRUE]}

\* A row that a provider brought.
MCCatalogued == {Upsert(NoPlan, 200)}

MCSymmetry == Permutations(Users) \cup Permutations(Sessions)
=============================================================================
