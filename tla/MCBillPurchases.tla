-------------------------- MODULE MCBillPurchases --------------------------
(***************************************************************************)
(* The instance of BillPurchases for TLC.                                  *)
(***************************************************************************)
EXTENDS BillPurchases

CONSTANTS k1, s1, s2
=============================================================================
