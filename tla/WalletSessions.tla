--------------------------- MODULE WalletSessions ---------------------------
(***************************************************************************)
(* services/wallet.py under concurrent requests.                           *)
(*                                                                         *)
(* Every request runs in a database session of its own (core/database.py:  *)
(* autocommit and autoflush off, PostgreSQL READ COMMITTED).  balance,     *)
(* locked and ledger are committed data, what any session reads; pc, call  *)
(* and rowLock are what the sessions in flight hold.  An UPDATE takes the  *)
(* row lock of the wallet until its session commits or rolls back, so the  *)
(* uncommitted change of a session needs no state beyond its pc.           *)
(*                                                                         *)
(* The early returns that write nothing (423 on the first look at          *)
(* is_locked, an existing ledger row, a sender without the money) leave    *)
(* every variable alone and are stutters.                                  *)
(***************************************************************************)
EXTENDS LedgerRows, Functions

CONSTANTS
    Sessions,   \* database sessions, one per request in flight
    Opening,    \* opening balance of each wallet
    Lockable,   \* the wallets an operator may lock or unlock
    Nobody,     \* holder of a free row lock
    NoCall      \* what an idle session runs

ASSUME OpeningIsSolvent == Opening \in [Wallets -> Nat]
ASSUME NobodyIsNoSession == Nobody \notin Sessions

Calls == [type : Types \cup {"TRANSFER"}, wallet : Wallets, to : Wallets,
          amount : Amounts, ref : Refs \cup TransferRefs,
          desc : Descs \cup {TransferDesc}, reached : BOOLEAN]

ASSUME NoCallIsNoCall == NoCall \notin Calls

VARIABLES
    balance,    \* wallets.balance
    locked,     \* wallets.is_locked
    ledger,     \* copies of each row of wallet_ledger
    pc,         \* how far a session has come
    call,       \* the operation a session runs
    rowLock,    \* the session whose uncommitted UPDATE holds a wallet row
    overlapped  \* history: rows two sessions were about to write at once

tables == <<balance, locked, ledger>>
vars == <<balance, locked, ledger, pc, call, rowLock, overlapped>>

Init ==
    /\ balance = Opening
    /\ locked = [w \in Wallets |-> FALSE]
    /\ ledger = [row \in LedgerRow |-> 0]
    /\ pc = [s \in Sessions |-> "idle"]
    /\ call = [s \in Sessions |-> NoCall]
    /\ rowLock = [w \in Wallets |-> Nobody]
    /\ overlapped = {}

-----------------------------------------------------------------------------
\* The ledger row a credit or debit call writes.
RowOf(c) == CallerRow(c.wallet, c.type, c.amount, c.ref, c.desc)

\* Mutant: the WHERE clause leaves the balance to the handler's earlier test.
Matches_NoBalanceTest(c) == ~locked[c.wallet]

\* Mutant: the WHERE clause leaves is_locked to the handler's earlier test.
Matches_IgnoresLock(c) == c.type # "CREDIT" => balance[c.wallet] >= c.amount

\* The WHERE clause of the UPDATE that moves the first wallet of a call.
Matches(c) ==
    /\ ~locked[c.wallet]
    /\ c.type # "CREDIT" => balance[c.wallet] >= c.amount

\* Mutant: the session is returned to the pool with its transaction open.
EndSession_KeepsLocks(s) ==
    /\ pc' = [pc EXCEPT ![s] = "idle"]
    /\ call' = [call EXCEPT ![s] = NoCall]
    /\ UNCHANGED <<rowLock, overlapped>>

\* The session ends: its row locks are free again.
EndSession(s) ==
    /\ pc' = [pc EXCEPT ![s] = "idle"]
    /\ call' = [call EXCEPT ![s] = NoCall]
    /\ rowLock' = [w \in Wallets |-> IF rowLock[w] = s THEN Nobody ELSE rowLock[w]]
    /\ UNCHANGED overlapped

Rollback(s) == EndSession(s) /\ UNCHANGED tables

\* Mutant: no lookup of an existing row.
BeginPosting_NoLookup(s, w, t, a, r, d) ==
    /\ pc[s] = "idle" /\ ~locked[w]
    /\ pc' = [pc EXCEPT ![s] = "checked"]
    /\ call' = [call EXCEPT ![s] =
                  [type |-> t, wallet |-> w, to |-> w, amount |-> a,
                   ref |-> r, desc |-> d, reached |-> FALSE]]
    /\ UNCHANGED <<tables, rowLock, overlapped>>

\* credit_wallet and debit_wallet up to their UPDATE: the wallet is not locked
\* and _find_matching_ledger finds no committed copy of the row.
BeginPosting(s, w, t, a, r, d) ==
    /\ pc[s] = "idle" /\ ~locked[w]
    /\ ledger[CallerRow(w, t, a, r, d)] = 0
    /\ pc' = [pc EXCEPT ![s] = "checked"]
    /\ call' = [call EXCEPT ![s] =
                  [type |-> t, wallet |-> w, to |-> w, amount |-> a,
                   ref |-> r, desc |-> d, reached |-> FALSE]]
    /\ overlapped' =
         IF \E other \in Sessions : /\ pc[other] \in {"checked", "updated"}
                                    /\ RowOf(call[other]) = CallerRow(w, t, a, r, d)
         THEN overlapped \cup {CallerRow(w, t, a, r, d)}
         ELSE overlapped
    /\ UNCHANGED <<tables, rowLock>>

\* The guarded UPDATE of the balance, once no other session holds the row.
UpdateWallet(s) ==
    /\ pc[s] = "checked" /\ Matches(call[s])
    /\ rowLock[call[s].wallet] = Nobody
    /\ pc' = [pc EXCEPT ![s] = "updated"]
    /\ rowLock' = [rowLock EXCEPT ![call[s].wallet] = s]
    /\ UNCHANGED <<tables, call, overlapped>>

\* Mutant: the call tries its UPDATE again instead of giving up.
UpdateMisses_TriesAgain(s) ==
    /\ pc[s] = "checked" /\ ~Matches(call[s])
    /\ UNCHANGED vars

\* rows_updated == 0: the call raises 423, 400 or 404 and get_db rolls back.
UpdateMisses(s) ==
    /\ pc[s] = "checked" /\ ~Matches(call[s])
    /\ Rollback(s)

\* Mutant: the balance is committed before the ledger row is added.
CommitPosting_ForgetsRow(s) ==
    LET c == call[s] IN
    /\ pc[s] = "updated"
    /\ balance' = [balance EXCEPT ![c.wallet] =
                     IF c.type = "CREDIT" THEN @ + c.amount ELSE @ - c.amount]
    /\ EndSession(s)
    /\ UNCHANGED <<locked, ledger>>

\* The COMMIT that makes the new balance and the ledger row visible.
CommitPosting(s) ==
    LET c == call[s] IN
    /\ pc[s] = "updated"
    /\ balance' = [balance EXCEPT ![c.wallet] =
                     IF c.type = "CREDIT" THEN @ + c.amount ELSE @ - c.amount]
    /\ ledger' = Insert(ledger, {RowOf(c)})
    /\ EndSession(s)
    /\ UNCHANGED locked

-----------------------------------------------------------------------------
\* uuid4: a transfer reference no row and no session has.
Fresh(r) ==
    /\ \A row \in LedgerRow : row.ref = r => ledger[row] = 0
    /\ \A s \in Sessions : pc[s] # "idle" => call[s].ref # r

\* execute_transfer refuses the sender as recipient; execute_wallet_transfer
\* debits the sender first.
DebitSender(s, w, to, a, r) ==
    LET c == [type |-> "TRANSFER", wallet |-> w, to |-> to, amount |-> a,
              ref |-> r, desc |-> TransferDesc, reached |-> FALSE]
    IN  /\ pc[s] = "idle" /\ to # w /\ Fresh(r)
        /\ Matches(c) /\ rowLock[w] = Nobody
        /\ pc' = [pc EXCEPT ![s] = "debited"]
        /\ call' = [call EXCEPT ![s] = c]
        /\ rowLock' = [rowLock EXCEPT ![w] = s]
        /\ UNCHANGED <<tables, overlapped>>

\* The UPDATE of the receiver, holding the sender's row lock.
CreditReceiver(s) ==
    /\ pc[s] = "debited" /\ ~locked[call[s].to]
    /\ rowLock[call[s].to] = Nobody
    /\ pc' = [pc EXCEPT ![s] = "sent"]
    /\ call' = [call EXCEPT ![s].reached = TRUE]
    /\ rowLock' = [rowLock EXCEPT ![call[s].to] = s]
    /\ UNCHANGED <<tables, overlapped>>

\* The same UPDATE on a locked wallet changes no row, and the code goes on.
MissReceiver(s) ==
    /\ pc[s] = "debited" /\ locked[call[s].to]
    /\ pc' = [pc EXCEPT ![s] = "sent"]
    /\ UNCHANGED <<tables, call, rowLock, overlapped>>

\* Mutant: only the sender's side of the transfer is on the ledger.
CommitTransfer_OneRow(s) ==
    LET c == call[s] IN
    /\ pc[s] = "sent"
    /\ balance' = [w \in Wallets |->
                     balance[w] - (IF w = c.wallet THEN c.amount ELSE 0)
                                + (IF w = c.to /\ c.reached THEN c.amount ELSE 0)]
    /\ ledger' = Insert(ledger, {SentRow(c.wallet, c.amount, c.ref)})
    /\ EndSession(s)
    /\ UNCHANGED locked

\* One COMMIT for both balances, both ledger rows and the two SUCCESS
\* transactions (which the ledger rows stand for).
CommitTransfer(s) ==
    LET c == call[s] IN
    /\ pc[s] = "sent"
    /\ balance' = [w \in Wallets |->
                     balance[w] - (IF w = c.wallet THEN c.amount ELSE 0)
                                + (IF w = c.to /\ c.reached THEN c.amount ELSE 0)]
    /\ ledger' = Insert(ledger, {SentRow(c.wallet, c.amount, c.ref),
                                 ReceivedRow(c.to, c.amount, c.ref)})
    /\ EndSession(s)
    /\ UNCHANGED locked

-----------------------------------------------------------------------------
\* A crash of the process, a lost connection or an exception before the commit.
Abort(s) == pc[s] # "idle" /\ Rollback(s)

WaitsFor(s, t) ==
    /\ pc[s] = "debited" /\ ~locked[call[s].to]
    /\ rowLock[call[s].to] = t

\* PostgreSQL's deadlock detector: of sessions that wait for each other in a
\* circle, one has its statement fail and its request ends with a 500.
DeadlockVictim(s) ==
    /\ \E circle \in SUBSET Sessions :
         /\ s \in circle
         /\ \A t \in circle : \E u \in circle : WaitsFor(t, u)
         /\ \A t \in circle : \E u \in circle : WaitsFor(u, t)
    /\ Rollback(s)

\* Nothing in the repository sets is_locked: an operator does, with an UPDATE
\* that needs the row lock like any other.
OperatorSetsLock(w) ==
    /\ w \in Lockable /\ rowLock[w] = Nobody
    /\ locked' = [locked EXCEPT ![w] = ~@]
    /\ UNCHANGED <<balance, ledger, pc, call, rowLock, overlapped>>

-----------------------------------------------------------------------------
SessionStep(s) ==
    \/ \E w \in Wallets, t \in Types, a \in Amounts, r \in Refs, d \in Descs :
           BeginPosting(s, w, t, a, r, d)
    \/ UpdateWallet(s)
    \/ UpdateMisses(s)
    \/ CommitPosting(s)
    \/ \E w, to \in Wallets, a \in Amounts, r \in TransferRefs :
           DebitSender(s, w, to, a, r)
    \/ CreditReceiver(s)
    \/ MissReceiver(s)
    \/ CommitTransfer(s)
    \/ Abort(s)
    \/ DeadlockVictim(s)

Next ==
    \/ \E s \in Sessions : SessionStep(s)
    \/ \E w \in Wallets : OperatorSetsLock(w)

Spec == Init /\ [][Next]_vars

\* A request that has begun runs on, row locks are granted in the order they
\* are asked for (hence strong fairness on the two waits), and the database
\* breaks its deadlocks.  Nothing obliges a client to call, a process to
\* crash or an operator to act.
Fairness ==
    \A s \in Sessions :
        /\ SF_vars(UpdateWallet(s))
        /\ SF_vars(CreditReceiver(s))
        /\ WF_vars(UpdateMisses(s))
        /\ WF_vars(MissReceiver(s))
        /\ WF_vars(CommitPosting(s))
        /\ WF_vars(CommitTransfer(s))
        /\ WF_vars(DeadlockVictim(s))

FairSpec == Spec /\ Fairness
-----------------------------------------------------------------------------
(***************************************************************************)
(* Properties                                                              *)
(***************************************************************************)

\* Type invariant; a row lock is held by a session that has updated a wallet
\* and not ended.
TypeOK ==
    /\ balance \in [Wallets -> Int]
    /\ locked \in [Wallets -> BOOLEAN]
    /\ ledger \in [LedgerRow -> Nat]
    /\ pc \in [Sessions -> {"idle", "checked", "updated", "debited", "sent"}]
    /\ call \in [Sessions -> Calls \cup {NoCall}]
    /\ rowLock \in [Wallets -> Sessions \cup {Nobody}]
    /\ overlapped \in SUBSET LedgerRow
    /\ \A s \in Sessions : pc[s] # "idle" => call[s] \in Calls
    /\ \A w \in Wallets : rowLock[w] # Nobody =>
           pc[rowLock[w]] \in {"updated", "debited", "sent"}

\* No interleaving of debits and transfers overdraws a wallet: the balance
\* test is in the UPDATE's WHERE clause (wallet.py, debit_wallet and
\* execute_wallet_transfer), not only in the handler that read it earlier.
NoOverdraft == \A w \in Wallets : balance[w] >= 0

\* The lookup of _find_matching_ledger makes a repeated call harmless unless
\* two sessions passed it at the same time: only then is a row written twice.
IdempotentUnlessOverlapped ==
    \A row \in LedgerRow : row \notin overlapped => ledger[row] <= 1

\* What the rows of a ledger come to for one wallet: a credit adds, a debit
\* takes off (the reconciliation an auditor would do).
Signed(row) == IF row.type = "CREDIT" THEN row.amount ELSE -row.amount
Movements(book) == [row \in LedgerRow |-> book[row] * Signed(row)]
Statement(book, w) == {row \in LedgerRow : row.wallet = w /\ book[row] > 0}
Reckoning(book, w) == SumFunctionOnSet(Movements(book), Statement(book, w))

\* The wallet_ledger table explains every balance: the opening balance and
\* what the rows come to.  A wallet that an operator may lock can have less,
\* since execute_wallet_transfer writes the receiver's row also when its UPDATE
\* missed the locked wallet, but no wallet ever has more.
LedgerExplainsBalance ==
    \A w \in Wallets :
        /\ balance[w] <= Opening[w] + Reckoning(ledger, w)
        /\ w \notin Lockable => balance[w] = Opening[w] + Reckoning(ledger, w)

\* A balance moves only while its wallet is unlocked, even when the lock is
\* set after the handler looked at it.
MovesOnlyUnlocked == \A w \in Wallets : balance'[w] # balance[w] => ~locked[w]
LockedWalletIsFrozen == [][MovesOnlyUnlocked]_vars

\* Seen from the committed tables, the statements of the sessions are the
\* indivisible postings of AtomicWallet.
Atomic == INSTANCE AtomicWallet WITH
    balance <- balance, locked <- locked, ledger <- ledger, Opening <- Opening
ImplementsAtomicWallet == Atomic!Spec

(***************************************************************************)
(* What makes the properties above inductive.                              *)
(***************************************************************************)
Holding == {"updated", "debited", "sent"}
Sending == {"debited", "sent"}

\* A session that has updated a wallet still holds its row, so what the WHERE
\* clause saw is still true; likewise for the receiver of a transfer.
HeldBy(s) ==
    LET c == call[s] IN
    /\ pc[s] \in {"checked", "updated"} =>
           c.type \in Types /\ c.ref \in Refs /\ c.desc \in Descs
    /\ pc[s] \in Sending =>
           c.type = "TRANSFER" /\ c.wallet # c.to /\ c.ref \in TransferRefs
    /\ pc[s] \in Holding => rowLock[c.wallet] = s /\ Matches(c)
    /\ pc[s] = "debited" => ~c.reached
    /\ pc[s] = "sent" /\ c.reached => rowLock[c.to] = s /\ ~locked[c.to]

HeldRowsAreStable == \A s \in Sessions : HeldBy(s)

\* The reference of a transfer in flight belongs to it alone.
TransferRefsAreFresh ==
    \A s \in Sessions : pc[s] \in Sending =>
        /\ \A row \in LedgerRow : row.ref = call[s].ref => ledger[row] = 0
        /\ \A t \in Sessions \ {s} : pc[t] # "idle" => call[t].ref # call[s].ref

Pending(s, row) == pc[s] \in {"checked", "updated"} /\ RowOf(call[s]) = row

\* Unless two sessions overlapped on it, a row is written or about to be
\* written by one session, never both.
WrittenOnce ==
    \A row \in LedgerRow : row \notin overlapped =>
        /\ ledger[row] <= 1
        /\ \A s, t \in Sessions : Pending(s, row) /\ Pending(t, row) => s = t
        /\ \A s \in Sessions : Pending(s, row) => ledger[row] = 0

SessionsInv ==
    /\ TypeOK
    /\ NoOverdraft
    /\ HeldRowsAreStable
    /\ TransferRefsAreFresh
    /\ WrittenOnce

\* Every request that got as far as its lookup or its first UPDATE ends, also
\* when two transfers in opposite directions wait for each other's row.
CallsReturn ==
    \A s \in Sessions : pc[s] # "idle" ~> pc[s] = "idle"
=============================================================================
