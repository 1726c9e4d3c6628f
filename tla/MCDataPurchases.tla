-------------------------- MODULE MCDataPurchases --------------------------
(***************************************************************************)
(* Instances of DataPurchases for TLC.                                     *)
(***************************************************************************)
EXTENDS DataPurchases, TLC

CONSTANTS p1, h1, h2, worker

\* A plan with a fallback, and one of a seller that sends no webhooks.
MCSafetyRoutes ==
    {[first |-> "smeplug", second |-> "amigo"], [first |-> "clubkonnect", second |-> "none"]}
MCLivenessRoutes == {[first |-> "autosync", second |-> "none"]}

MCSymmetry == Permutations(Handlers)
=============================================================================
