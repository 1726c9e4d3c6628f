--------------------------- MODULE MCBankAccounts ---------------------------
(***************************************************************************)
(* Two users, one telephone and a provider, for TLC.                       *)
(***************************************************************************)
EXTENDS BankAccounts

CONSTANTS u1, u2, s1, s2

\* The requests that change who has an e-mail address or a telephone.
MCOffered == {"register", "delete"}
=============================================================================
