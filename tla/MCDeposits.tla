----------------------------- MODULE MCDeposits -----------------------------
(***************************************************************************)
(* A referred user with a checkout and a transfer, for TLC.                *)
(***************************************************************************)
EXTENDS Deposits, TLC

CONSTANTS ann, ben, checkout, transfer

MCSymmetry == Permutations(Handlers)

BenRefersAnn == [u \in Users |-> IF u = ann THEN ben ELSE NoUser]
AnnOwns == [d \in Deposits |-> ann]
=============================================================================
