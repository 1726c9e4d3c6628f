-------------------------- MODULE MCWalletSessions --------------------------
(***************************************************************************)
(* Instances of WalletSessions for TLC.                                    *)
(***************************************************************************)
EXTENDS WalletSessions

CONSTANTS w1, w2, s1, s2, OpeningBalance

MCOpening == [w \in Wallets |-> OpeningBalance]
=============================================================================
