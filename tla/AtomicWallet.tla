---------------------------- MODULE AtomicWallet ----------------------------
(***************************************************************************)
(* What the wallet promises its callers: every change is one indivisible   *)
(* posting that moves a balance and writes the ledger rows that explain it.*)
(* A locked wallet is never moved, and no posting takes a balance below    *)
(* zero.  WalletSessions, where a posting is several statements of a       *)
(* database session interleaved with those of others, implements it.       *)
(***************************************************************************)
EXTENDS LedgerRows

CONSTANT Opening    \* the balances the ledger starts from

VARIABLES balance, locked, ledger

vars == <<balance, locked, ledger>>

Init ==
    /\ balance = Opening
    /\ locked = [w \in Wallets |-> FALSE]
    /\ ledger = [row \in LedgerRow |-> 0]

Credit(row) ==
    /\ row.type = "CREDIT" /\ ~locked[row.wallet]
    /\ balance' = [balance EXCEPT ![row.wallet] = @ + row.amount]
    /\ ledger' = Insert(ledger, {row})
    /\ UNCHANGED locked

Debit(row) ==
    /\ row.type = "DEBIT" /\ ~locked[row.wallet]
    /\ balance[row.wallet] >= row.amount
    /\ balance' = [balance EXCEPT ![row.wallet] = @ - row.amount]
    /\ ledger' = Insert(ledger, {row})
    /\ UNCHANGED locked

\* Both halves of a transfer become visible together, under a reference no
\* row had.
Transfer(from, to, a, r) ==
    /\ from # to /\ ~locked[from] /\ ~locked[to]
    /\ balance[from] >= a
    /\ \A row \in LedgerRow : row.ref = r => ledger[row] = 0
    /\ balance' = [balance EXCEPT ![from] = @ - a, ![to] = @ + a]
    /\ ledger' = Insert(ledger, {SentRow(from, a, r), ReceivedRow(to, a, r)})
    /\ UNCHANGED locked

\* The same transfer when the receiver's wallet was locked: its UPDATE matches
\* no row and nobody looks at the count.
TransferIntoLocked(from, to, a, r) ==
    /\ from # to /\ ~locked[from]
    /\ balance[from] >= a
    /\ \A row \in LedgerRow : row.ref = r => ledger[row] = 0
    /\ balance' = [balance EXCEPT ![from] = @ - a]
    /\ ledger' = Insert(ledger, {SentRow(from, a, r), ReceivedRow(to, a, r)})
    /\ UNCHANGED locked

SetLocked(w) ==
    /\ locked' = [locked EXCEPT ![w] = ~@]
    /\ UNCHANGED <<balance, ledger>>

Next ==
    \/ \E row \in LedgerRow : Credit(row) \/ Debit(row)
    \/ \E from, to \in Wallets, a \in Amounts, r \in TransferRefs :
           Transfer(from, to, a, r) \/ TransferIntoLocked(from, to, a, r)
    \/ \E w \in Wallets : SetLocked(w)

Spec == Init /\ [][Next]_vars
=============================================================================
