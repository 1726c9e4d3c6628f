----------------------------- MODULE LedgerRows -----------------------------
(***************************************************************************)
(* The rows of the wallet_ledger table, shared by the abstract wallet      *)
(* (AtomicWallet) and the detailed one (WalletSessions).                   *)
(*                                                                         *)
(* A row is what services/wallet.py compares in _find_matching_ledger:     *)
(* wallet, amount, reference, description and entry type.  The table has   *)
(* no unique constraint over them, so a ledger counts the copies of a row. *)
(***************************************************************************)
EXTENDS Integers

CONSTANTS
    Wallets,        \* wallet ids
    Amounts,        \* amounts a caller may post
    Refs,           \* references callers choose for credits and debits
    TransferRefs,   \* the uuid references execute_wallet_transfer generates
    Descs,          \* descriptions callers choose
    TransferDesc    \* "Transfer to ..." / "Received from ..."

ASSUME AmountsArePositive == Amounts \subseteq Nat \ {0}
ASSUME RefsAreDisjoint == Refs \cap TransferRefs = {}
ASSUME TransferDescIsReserved == TransferDesc \notin Descs

Types == {"CREDIT", "DEBIT"}

LedgerRow == [wallet : Wallets, type : Types, amount : Amounts,
              ref : Refs \cup TransferRefs, desc : Descs \cup {TransferDesc}]

CallerRow(w, t, a, r, d) ==
    [wallet |-> w, type |-> t, amount |-> a, ref |-> r, desc |-> d]

\* The two rows of a transfer.  The receiver's reference is the sender's with
\* "_RX" appended; here the entry type tells the two apart.
SentRow(w, a, r) == CallerRow(w, "DEBIT", a, r, TransferDesc)
ReceivedRow(w, a, r) == CallerRow(w, "CREDIT", a, r, TransferDesc)

\* The ledger after one INSERT for each row of rows.
Insert(book, rows) ==
    [row \in LedgerRow |-> book[row] + (IF row \in rows THEN 1 ELSE 0)]
=============================================================================
