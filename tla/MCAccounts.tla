----------------------------- MODULE MCAccounts -----------------------------
(***************************************************************************)
(* Two accounts of one telephone number, for TLC.                          *)
(***************************************************************************)
EXTENDS Accounts, TLC

CONSTANTS u1, u2, s1, s2

MCSymmetry == Permutations(Users) \cup Permutations(Sessions)
=============================================================================
