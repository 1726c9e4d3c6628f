----------------------- MODULE WalletSessions_proofs -----------------------
(***************************************************************************)
(* Proofs about WalletSessions, for any wallets, sessions, amounts,        *)
(* references and opening balances.                                        *)
(***************************************************************************)
EXTENDS WalletSessions, FiniteSetTheorems, TLAPS

ConstantAssumptions ==
    /\ Amounts \subseteq Nat \ {0}
    /\ Refs \cap TransferRefs = {}
    /\ TransferDesc \notin Descs
    /\ Opening \in [Wallets -> Nat]
    /\ Nobody \notin Sessions
    /\ NoCall \notin Calls

LEMMA Assumptions == ConstantAssumptions
BY AmountsArePositive, RefsAreDisjoint, TransferDescIsReserved,
   OpeningIsSolvent, NobodyIsNoSession, NoCallIsNoCall DEF ConstantAssumptions

LEMMA InsertType ==
    ASSUME NEW book \in [LedgerRow -> Nat], NEW rows
    PROVE  Insert(book, rows) \in [LedgerRow -> Nat]
BY DEF Insert

\* The fields of a call in flight.
LEMMA CallFields ==
    ASSUME NEW c \in Calls
    PROVE  /\ c.type \in Types \cup {"TRANSFER"}
           /\ c.wallet \in Wallets
           /\ c.to \in Wallets
           /\ c.amount \in Amounts
           /\ c.amount \in Int
           /\ c.amount > 0
           /\ c.ref \in Refs \cup TransferRefs
           /\ c.desc \in Descs \cup {TransferDesc}
           /\ c.reached \in BOOLEAN
<1>1. /\ c.type \in Types \cup {"TRANSFER"}
      /\ c.wallet \in Wallets
      /\ c.to \in Wallets
      /\ c.amount \in Amounts
      /\ c.ref \in Refs \cup TransferRefs
      /\ c.desc \in Descs \cup {TransferDesc}
      /\ c.reached \in BOOLEAN
  BY DEF Calls
<1>2. c.amount \in Nat \ {0}
  BY <1>1, AmountsArePositive
<1>3. QED
  BY <1>1, <1>2

\* The type invariant of WalletSessions holds in every reachable state.
THEOREM TypeCorrect == Spec => []TypeOK
<1>1. Init => TypeOK
  BY Assumptions DEF Init, TypeOK, ConstantAssumptions
<1>2. TypeOK /\ [Next]_vars => TypeOK'
  <2> SUFFICES ASSUME TypeOK, [Next]_vars
               PROVE  TypeOK'
    OBVIOUS
  <2> USE Assumptions DEF TypeOK, ConstantAssumptions
  <2>1. ASSUME NEW s \in Sessions, NEW w \in Wallets, NEW t \in Types,
               NEW a \in Amounts, NEW r \in Refs, NEW d \in Descs,
               BeginPosting(s, w, t, a, r, d)
        PROVE  TypeOK'
    BY <2>1 DEF BeginPosting, tables, Calls, CallerRow, LedgerRow
  <2>2. ASSUME NEW s \in Sessions, UpdateWallet(s)
        PROVE  TypeOK'
    BY <2>2 DEF UpdateWallet, tables, Calls
  <2>3. ASSUME NEW s \in Sessions, Rollback(s)
        PROVE  TypeOK'
    BY <2>3 DEF Rollback, EndSession, tables
  <2>4. ASSUME NEW s \in Sessions, CommitPosting(s)
        PROVE  TypeOK'
    <3>1. call[s] \in Calls
      BY <2>4 DEF CommitPosting
    <3> DEFINE c == call[s]
    <3>2. c.wallet \in Wallets /\ c.amount \in Int
      BY <3>1, CallFields
    <3>3. balance' = [balance EXCEPT ![c.wallet] =
                        IF c.type = "CREDIT" THEN @ + c.amount ELSE @ - c.amount]
      BY <2>4 DEF CommitPosting
    <3> HIDE DEF c
    <3>4. balance' \in [Wallets -> Int]
      BY <3>2, <3>3
    <3>5. ledger' \in [LedgerRow -> Nat]
      BY <2>4, InsertType DEF CommitPosting
    <3> QED
      BY <2>4, <3>4, <3>5 DEF CommitPosting, EndSession
  <2>5. ASSUME NEW s \in Sessions, NEW w \in Wallets, NEW to \in Wallets,
               NEW a \in Amounts, NEW r \in TransferRefs,
               DebitSender(s, w, to, a, r)
        PROVE  TypeOK'
    BY <2>5 DEF DebitSender, tables, Calls
  <2>6. ASSUME NEW s \in Sessions, CreditReceiver(s)
        PROVE  TypeOK'
    <3>1. call[s] \in Calls /\ call[s].to \in Wallets
      BY <2>6 DEF CreditReceiver, Calls
    <3>2. [call[s] EXCEPT !.reached = TRUE] \in Calls
      BY <3>1 DEF Calls
    <3>3. call' = [call EXCEPT ![s] = [call[s] EXCEPT !.reached = TRUE]]
      BY <2>6 DEF CreditReceiver
    <3> QED
      BY <2>6, <3>1, <3>2, <3>3 DEF CreditReceiver, tables
  <2>7. ASSUME NEW s \in Sessions, MissReceiver(s)
        PROVE  TypeOK'
    BY <2>7 DEF MissReceiver, tables
  <2>8. ASSUME NEW s \in Sessions, CommitTransfer(s)
        PROVE  TypeOK'
    <3>1. call[s] \in Calls
      BY <2>8 DEF CommitTransfer
    <3> DEFINE c == call[s]
    <3>2. c.amount \in Int
      BY <3>1, CallFields
    <3>3. balance' = [w \in Wallets |->
                        balance[w] - (IF w = c.wallet THEN c.amount ELSE 0)
                          + (IF w = c.to /\ c.reached THEN c.amount ELSE 0)]
      BY <2>8 DEF CommitTransfer
    <3> HIDE DEF c
    <3>4. balance' \in [Wallets -> Int]
      BY <3>2, <3>3
    <3>5. ledger' \in [LedgerRow -> Nat]
      BY <2>8, InsertType DEF CommitTransfer
    <3> QED
      BY <2>8, <3>4, <3>5 DEF CommitTransfer, EndSession
  <2>9. ASSUME NEW w \in Wallets, OperatorSetsLock(w)
        PROVE  TypeOK'
    BY <2>9 DEF OperatorSetsLock
  <2>10. CASE UNCHANGED vars
    BY <2>10 DEF vars
  <2> QED
    BY <2>1, <2>2, <2>3, <2>4, <2>5, <2>6, <2>7, <2>8, <2>9, <2>10
       DEF Next, SessionStep, UpdateMisses, Abort, DeadlockVictim
<1>3. QED
  BY <1>1, <1>2, PTL DEF Spec


-----------------------------------------------------------------------------
\* Ending a session disturbs no other session as long as the tables it leaves
\* behind agree with the old ones on the rows the other holds.
LEMMA HeldByOthers ==
    ASSUME TypeOK, NEW s \in Sessions, NEW p \in Sessions \ {s}, HeldBy(p),
           EndSession(s), locked' = locked,
           \A w \in Wallets : rowLock[w] = p => balance'[w] = balance[w]
    PROVE  HeldBy(p)'
<1>1. pc'[p] = pc[p] /\ call'[p] = call[p]
  BY DEF TypeOK, EndSession
<1>2. \A w \in Wallets : rowLock[w] = p => rowLock'[w] = p
  BY DEF TypeOK, EndSession
<1>3. pc[p] \in Holding => call[p].wallet \in Wallets /\ call[p].to \in Wallets
  BY CallFields DEF TypeOK, Holding
<1>4. ASSUME pc[p] \in Holding
      PROVE  rowLock'[call[p].wallet] = p /\ Matches(call[p])'
  BY <1>1, <1>2, <1>3, <1>4 DEF HeldBy, Matches
<1>5. ASSUME pc[p] = "sent", call[p].reached
      PROVE  rowLock'[call[p].to] = p /\ ~locked'[call[p].to]
  BY <1>2, <1>3, <1>5 DEF HeldBy, Holding
<1>6. QED
  BY <1>1, <1>4, <1>5 DEF HeldBy, Sending

\* What a session holds stays true through every step.
LEMMA HeldStep ==
    ASSUME TypeOK, HeldRowsAreStable, [Next]_vars
    PROVE  HeldRowsAreStable'
<1> SUFFICES ASSUME NEW p \in Sessions
             PROVE  HeldBy(p)'
  BY DEF HeldRowsAreStable
<1>0. HeldBy(p) /\ Nobody # p
  BY Assumptions DEF HeldRowsAreStable, ConstantAssumptions
<1> USE DEF Holding, Sending
<1>1. ASSUME NEW s \in Sessions, NEW w \in Wallets, NEW t \in Types,
             NEW a \in Amounts, NEW r \in Refs, NEW d \in Descs,
             BeginPosting(s, w, t, a, r, d)
      PROVE  HeldBy(p)'
  BY <1>0, <1>1 DEF BeginPosting, HeldBy, Matches, tables, TypeOK
<1>2. ASSUME NEW s \in Sessions, UpdateWallet(s)
      PROVE  HeldBy(p)'
  <2>1. call[s].wallet \in Wallets
    BY <1>2, CallFields DEF UpdateWallet, TypeOK
  <2>2. CASE p = s
    BY <1>0, <1>2, <2>1, <2>2 DEF UpdateWallet, HeldBy, Matches, tables, TypeOK
  <2>3. CASE p # s
    BY <1>0, <1>2, <2>1, <2>3 DEF UpdateWallet, HeldBy, Matches, tables, TypeOK
  <2> QED
    BY <2>2, <2>3
<1>3. ASSUME NEW s \in Sessions, Rollback(s)
      PROVE  HeldBy(p)'
  <2>1. CASE p = s
    BY <1>3, <2>1 DEF Rollback, EndSession, HeldBy, TypeOK
  <2>2. CASE p # s
    BY <1>0, <1>3, <2>2, HeldByOthers DEF Rollback, tables
  <2> QED
    BY <2>1, <2>2
<1>4. ASSUME NEW s \in Sessions, CommitPosting(s)
      PROVE  HeldBy(p)'
  <2>1. CASE p = s
    BY <1>4, <2>1 DEF CommitPosting, EndSession, HeldBy, TypeOK
  <2>2. CASE p # s
    <3>1. rowLock[call[s].wallet] = s
      BY <1>4 DEF CommitPosting, HeldRowsAreStable, HeldBy
    <3>2. \A w \in Wallets : rowLock[w] = p => balance'[w] = balance[w]
      BY <1>4, <2>2, <3>1 DEF CommitPosting, TypeOK
    <3> QED
      BY <1>0, <1>4, <2>2, <3>2, HeldByOthers DEF CommitPosting
  <2> QED
    BY <2>1, <2>2
<1>5. ASSUME NEW s \in Sessions, NEW w \in Wallets, NEW to \in Wallets,
             NEW a \in Amounts, NEW r \in TransferRefs,
             DebitSender(s, w, to, a, r)
      PROVE  HeldBy(p)'
  <2>1. CASE p = s
    BY <1>5, <2>1 DEF DebitSender, HeldBy, Matches, tables, TypeOK
  <2>2. CASE p # s
    BY <1>0, <1>5, <2>2 DEF DebitSender, HeldBy, Matches, tables, TypeOK
  <2> QED
    BY <2>1, <2>2
<1>6. ASSUME NEW s \in Sessions, CreditReceiver(s)
      PROVE  HeldBy(p)'
  <2>1. call[s] \in Calls /\ call[s].to \in Wallets
    BY <1>6, CallFields DEF CreditReceiver, TypeOK
  <2>2. CASE p = s
    <3> DEFINE c == call[s]
               reached == [c EXCEPT !.reached = TRUE]
    <3>0. /\ reached.type = c.type /\ reached.wallet = c.wallet
          /\ reached.to = c.to /\ reached.amount = c.amount
          /\ reached.ref = c.ref /\ reached.desc = c.desc
      BY <2>1 DEF Calls
    <3>1. call' = [call EXCEPT ![s] = reached]
      BY <1>6 DEF CreditReceiver
    <3>2. /\ call'[s].type = call[s].type /\ call'[s].wallet = call[s].wallet
          /\ call'[s].to = call[s].to /\ call'[s].amount = call[s].amount
          /\ call'[s].ref = call[s].ref /\ call'[s].desc = call[s].desc
      BY <3>0, <3>1 DEF TypeOK
    <3>3. rowLock'[call[s].wallet] = s /\ rowLock'[call[s].to] = s
      BY <1>0, <1>6, <2>1, <2>2 DEF CreditReceiver, HeldBy, TypeOK
    <3>4. Matches(call[s]) /\ ~locked'[call[s].to] /\ tables' = tables
      BY <1>0, <1>6, <2>2 DEF CreditReceiver, HeldBy, tables
    <3>5. Matches(call[s])'
      BY <3>2, <3>4 DEF Matches, tables
    <3>6. pc'[s] = "sent" /\ pc[s] = "debited"
      BY <1>6 DEF CreditReceiver, TypeOK
    <3> QED
      BY <1>0, <2>2, <3>2, <3>3, <3>4, <3>5, <3>6 DEF HeldBy
  <2>3. CASE p # s
    BY <1>0, <1>6, <2>1, <2>3 DEF CreditReceiver, HeldBy, Matches, tables, TypeOK
  <2> QED
    BY <2>2, <2>3
<1>7. ASSUME NEW s \in Sessions, MissReceiver(s)
      PROVE  HeldBy(p)'
  BY <1>0, <1>7 DEF MissReceiver, HeldBy, Matches, tables, TypeOK
<1>8. ASSUME NEW s \in Sessions, CommitTransfer(s)
      PROVE  HeldBy(p)'
  <2>1. CASE p = s
    BY <1>8, <2>1 DEF CommitTransfer, EndSession, HeldBy, TypeOK
  <2>2. CASE p # s
    <3>1. /\ rowLock[call[s].wallet] = s
          /\ call[s].reached => rowLock[call[s].to] = s
      BY <1>8 DEF CommitTransfer, HeldRowsAreStable, HeldBy
    <3>2. \A w \in Wallets : rowLock[w] = p => balance'[w] = balance[w]
      BY <1>8, <2>2, <3>1 DEF CommitTransfer, TypeOK
    <3> QED
      BY <1>0, <1>8, <2>2, <3>2, HeldByOthers DEF CommitTransfer
  <2> QED
    BY <2>1, <2>2
<1>9. ASSUME NEW w \in Wallets, OperatorSetsLock(w)
      PROVE  HeldBy(p)'
  BY <1>0, <1>9, CallFields DEF OperatorSetsLock, HeldBy, Matches, TypeOK
<1>10. CASE UNCHANGED vars
  BY <1>0, <1>10 DEF vars, HeldBy, Matches
<1> QED
  BY <1>1, <1>2, <1>3, <1>4, <1>5, <1>6, <1>7, <1>8, <1>9, <1>10
     DEF Next, SessionStep, UpdateMisses, Abort, DeadlockVictim

-----------------------------------------------------------------------------
LEMMA HeldInvariant == Spec => []HeldRowsAreStable
<1>1. Init => HeldRowsAreStable
  BY DEF Init, HeldRowsAreStable, HeldBy, Holding, Sending
<1>2. TypeOK /\ HeldRowsAreStable /\ [Next]_vars => HeldRowsAreStable'
  BY HeldStep
<1>3. QED
  BY <1>1, <1>2, TypeCorrect, PTL DEF Spec

\* A step that changes a balance is one of the two commits.
LEMMA OnlyCommitsMoveMoney ==
    ASSUME [Next]_vars,
           \A s \in Sessions : ~CommitPosting(s) /\ ~CommitTransfer(s)
    PROVE  balance' = balance /\ ledger' = ledger
<1>1. ASSUME NEW s \in Sessions, SessionStep(s)
      PROVE  balance' = balance /\ ledger' = ledger
  <2>1. \A w \in Wallets, t \in Types, a \in Amounts, r \in Refs, d \in Descs :
            BeginPosting(s, w, t, a, r, d) => UNCHANGED tables
    BY DEF BeginPosting, tables
  <2>2. \A w, to \in Wallets, a \in Amounts, r \in TransferRefs :
            DebitSender(s, w, to, a, r) => UNCHANGED tables
    BY DEF DebitSender, tables
  <2>3. UpdateWallet(s) \/ CreditReceiver(s) \/ MissReceiver(s) => UNCHANGED tables
    BY DEF UpdateWallet, CreditReceiver, MissReceiver, tables
  <2>4. UpdateMisses(s) \/ Abort(s) \/ DeadlockVictim(s) => UNCHANGED tables
    BY DEF UpdateMisses, Abort, DeadlockVictim, Rollback, tables
  <2>5. UNCHANGED tables
    BY <1>1, <2>1, <2>2, <2>3, <2>4 DEF SessionStep
  <2> QED
    BY <2>5 DEF tables
<1>2. ASSUME NEW w \in Wallets, OperatorSetsLock(w)
      PROVE  balance' = balance /\ ledger' = ledger
  BY <1>2 DEF OperatorSetsLock
<1>3. QED
  BY <1>1, <1>2 DEF Next, vars

\* The balance a commit leaves behind, wallet by wallet.
LEMMA PostingBalance ==
    ASSUME TypeOK, HeldRowsAreStable, NEW s \in Sessions, CommitPosting(s),
           NEW w \in Wallets
    PROVE  /\ ~locked[call[s].wallet]
           /\ w # call[s].wallet => balance'[w] = balance[w]
           /\ w = call[s].wallet /\ call[s].type = "CREDIT" =>
                  balance'[w] = balance[w] + call[s].amount
           /\ w = call[s].wallet /\ call[s].type # "CREDIT" =>
                  /\ balance'[w] = balance[w] - call[s].amount
                  /\ balance[w] >= call[s].amount
<1>1. HeldBy(s) /\ pc[s] = "updated"
  BY DEF HeldRowsAreStable, CommitPosting
<1>2. Matches(call[s])
  BY <1>1 DEF HeldBy, Holding
<1> DEFINE c == call[s]
<1>3. ~locked[c.wallet] /\ (c.type # "CREDIT" => balance[c.wallet] >= c.amount)
  BY <1>2 DEF Matches
<1>4. balance' = [balance EXCEPT ![c.wallet] =
                    IF c.type = "CREDIT" THEN @ + c.amount ELSE @ - c.amount]
  BY DEF CommitPosting
<1>5. balance \in [Wallets -> Int]
  BY DEF TypeOK
<1> HIDE DEF c
<1>6. /\ ~locked[c.wallet]
      /\ w # c.wallet => balance'[w] = balance[w]
      /\ w = c.wallet /\ c.type = "CREDIT" => balance'[w] = balance[w] + c.amount
      /\ w = c.wallet /\ c.type # "CREDIT" => /\ balance'[w] = balance[w] - c.amount
                                             /\ balance[w] >= c.amount
  BY <1>3, <1>4, <1>5
<1>7. QED
  BY <1>6 DEF c

LEMMA TransferBalance ==
    ASSUME TypeOK, HeldRowsAreStable, NEW s \in Sessions, CommitTransfer(s),
           NEW w \in Wallets
    PROVE  LET c == call[s] IN
           /\ ~locked[c.wallet] /\ c.wallet # c.to
           /\ c.reached => ~locked[c.to]
           /\ w = c.wallet => /\ balance'[w] = balance[w] - c.amount
                              /\ balance[w] >= c.amount
           /\ w = c.to /\ c.reached => balance'[w] = balance[w] + c.amount
           /\ w # c.wallet /\ ~(w = c.to /\ c.reached) => balance'[w] = balance[w]
<1> DEFINE c == call[s]
<1>1. HeldBy(s) /\ pc[s] = "sent" /\ c \in Calls
  BY DEF HeldRowsAreStable, CommitTransfer, TypeOK
<1>2. Matches(c) /\ c.type = "TRANSFER" /\ c.wallet # c.to
  BY <1>1 DEF HeldBy, Holding, Sending
<1>3. c.amount \in Int /\ balance[w] \in Int
  BY <1>1, CallFields DEF TypeOK
<1>4. balance'[w] = balance[w] - (IF w = c.wallet THEN c.amount ELSE 0)
                      + (IF w = c.to /\ c.reached THEN c.amount ELSE 0)
  BY DEF CommitTransfer
<1>5. ~locked[c.wallet] /\ balance[c.wallet] >= c.amount
  BY <1>2 DEF Matches
<1>6. c.reached => ~locked[c.to]
  BY <1>1 DEF HeldBy
<1> HIDE DEF c
<1>7. /\ ~locked[c.wallet] /\ c.wallet # c.to
      /\ c.reached => ~locked[c.to]
      /\ w = c.wallet => /\ balance'[w] = balance[w] - c.amount
                         /\ balance[w] >= c.amount
      /\ w = c.to /\ c.reached => balance'[w] = balance[w] + c.amount
      /\ w # c.wallet /\ ~(w = c.to /\ c.reached) => balance'[w] = balance[w]
  BY <1>2, <1>3, <1>4, <1>5, <1>6
<1>8. QED
  BY <1>7 DEF c

\* No wallet is ever overdrawn, whatever requests run at once: an UPDATE that
\* saw enough money keeps the row until its COMMIT takes the money.
THEOREM WalletNeverOverdrawn == Spec => []NoOverdraft
<1>1. Init => NoOverdraft
  <2> SUFFICES ASSUME Init, NEW w \in Wallets
               PROVE  balance[w] >= 0
    BY DEF NoOverdraft
  <2>1. balance[w] \in Nat
    BY OpeningIsSolvent DEF Init
  <2> QED
    BY <2>1
<1>2. TypeOK /\ HeldRowsAreStable /\ NoOverdraft /\ [Next]_vars => NoOverdraft'
  <2> SUFFICES ASSUME TypeOK, HeldRowsAreStable, NoOverdraft, [Next]_vars,
                      NEW w \in Wallets
               PROVE  balance'[w] >= 0
    BY DEF NoOverdraft
  <2>1. balance[w] \in Int /\ balance[w] >= 0
    BY DEF TypeOK, NoOverdraft
  <2>2. ASSUME NEW s \in Sessions, CommitPosting(s)
        PROVE  balance'[w] >= 0
    <3>1. call[s].amount \in Int /\ call[s].amount > 0
      BY <2>2, CallFields DEF CommitPosting, TypeOK
    <3> QED
      BY <2>1, <2>2, <3>1, PostingBalance
  <2>3. ASSUME NEW s \in Sessions, CommitTransfer(s)
        PROVE  balance'[w] >= 0
    <3>1. call[s].amount \in Int /\ call[s].amount > 0
      BY <2>3, CallFields DEF CommitTransfer, TypeOK
    <3> QED
      BY <2>1, <2>3, <3>1, TransferBalance
  <2> QED
    BY <2>1, <2>2, <2>3, OnlyCommitsMoveMoney
<1>3. QED
  BY <1>1, <1>2, TypeCorrect, HeldInvariant, PTL DEF Spec

\* A balance moves only while its wallet is unlocked.
THEOREM LockedWalletsFrozen == Spec => LockedWalletIsFrozen
<1>1. TypeOK /\ HeldRowsAreStable /\ [Next]_vars =>
          [MovesOnlyUnlocked]_vars
  <2> SUFFICES ASSUME TypeOK, HeldRowsAreStable, [Next]_vars,
                      NEW w \in Wallets, balance'[w] # balance[w]
               PROVE  ~locked[w]
    BY DEF MovesOnlyUnlocked
  <2>1. ASSUME NEW s \in Sessions, CommitPosting(s)
        PROVE  ~locked[w]
    BY <2>1, PostingBalance
  <2>2. ASSUME NEW s \in Sessions, CommitTransfer(s)
        PROVE  ~locked[w]
    BY <2>2, TransferBalance
  <2> QED
    BY <2>1, <2>2, OnlyCommitsMoveMoney
<1>2. QED
  BY <1>1, TypeCorrect, HeldInvariant, PTL DEF Spec, LockedWalletIsFrozen

-----------------------------------------------------------------------------
LEMMA InsertValue ==
    ASSUME NEW book \in [LedgerRow -> Nat], NEW rows, NEW row \in LedgerRow
    PROVE  /\ row \in rows => Insert(book, rows)[row] = book[row] + 1
           /\ row \notin rows => Insert(book, rows)[row] = book[row]
BY DEF Insert

\* No step makes a reference of a transfer in flight shared or used.
LEMMA FreshStep ==
    ASSUME TypeOK, HeldRowsAreStable, TransferRefsAreFresh, [Next]_vars
    PROVE  TransferRefsAreFresh'
<1> DEFINE FreshFor(p) ==
        pc[p] \in Sending =>
          /\ \A row \in LedgerRow : row.ref = call[p].ref => ledger[row] = 0
          /\ \A t \in Sessions \ {p} : pc[t] # "idle" => call[t].ref # call[p].ref
<1> SUFFICES ASSUME NEW p \in Sessions
             PROVE  FreshFor(p)'
  BY DEF TransferRefsAreFresh
<1>0. FreshFor(p) /\ \A s \in Sessions : HeldBy(s)
  BY DEF TransferRefsAreFresh, HeldRowsAreStable
<1>1. ASSUME NEW s \in Sessions, NEW w \in Wallets, NEW t \in Types,
             NEW a \in Amounts, NEW r \in Refs, NEW d \in Descs,
             BeginPosting(s, w, t, a, r, d)
      PROVE  FreshFor(p)'
  <2>1. call'[s].ref \in Refs /\ pc'[s] = "checked" /\ ledger' = ledger
    BY <1>1 DEF BeginPosting, TypeOK, tables
  <2>2. pc[p] \in Sending => call[p].ref \in TransferRefs
    BY <1>0 DEF HeldBy
  <2> QED
    BY <1>0, <1>1, <2>1, <2>2, RefsAreDisjoint DEF BeginPosting, TypeOK, Sending
<1>2. ASSUME NEW s \in Sessions, UpdateWallet(s)
      PROVE  FreshFor(p)'
  BY <1>0, <1>2 DEF UpdateWallet, TypeOK, tables, Sending
<1>3. ASSUME NEW s \in Sessions, Rollback(s)
      PROVE  FreshFor(p)'
  BY <1>0, <1>3 DEF Rollback, EndSession, TypeOK, tables, Sending
<1>4. ASSUME NEW s \in Sessions, CommitPosting(s)
      PROVE  FreshFor(p)'
  <2>1. RowOf(call[s]).ref \in Refs
    BY <1>0, <1>4 DEF CommitPosting, HeldBy, RowOf, CallerRow
  <2>2. pc[p] \in Sending => call[p].ref \in TransferRefs
    BY <1>0 DEF HeldBy
  <2>3. \A row \in LedgerRow : row.ref \in TransferRefs => ledger'[row] = ledger[row]
    BY <1>4, <2>1, InsertValue, RefsAreDisjoint DEF CommitPosting, TypeOK
  <2>4. /\ pc' = [pc EXCEPT ![s] = "idle"]
        /\ call' = [call EXCEPT ![s] = NoCall]
    BY <1>4 DEF CommitPosting, EndSession
  <2> QED
    BY <1>0, <2>2, <2>3, <2>4 DEF TypeOK, Sending
<1>5. ASSUME NEW s \in Sessions, NEW w \in Wallets, NEW to \in Wallets,
             NEW a \in Amounts, NEW r \in TransferRefs,
             DebitSender(s, w, to, a, r)
      PROVE  FreshFor(p)'
  <2>1. /\ pc' = [pc EXCEPT ![s] = "debited"] /\ ledger' = ledger /\ Fresh(r)
        /\ call'[s].ref = r /\ \A t \in Sessions \ {s} : call'[t] = call[t]
    BY <1>5 DEF DebitSender, TypeOK, tables
  <2> QED
    BY <1>0, <2>1 DEF Fresh, TypeOK, Sending
<1>6. ASSUME NEW s \in Sessions, CreditReceiver(s)
      PROVE  FreshFor(p)'
  <2>1. call[s] \in Calls /\ pc[s] = "debited"
    BY <1>6 DEF CreditReceiver, TypeOK
  <2>2. [call[s] EXCEPT !.reached = TRUE].ref = call[s].ref
    BY <2>1 DEF Calls
  <2>3. /\ pc' = [pc EXCEPT ![s] = "sent"] /\ ledger' = ledger
        /\ call'[s].ref = call[s].ref
        /\ \A t \in Sessions \ {s} : call'[t] = call[t]
    BY <1>6, <2>2 DEF CreditReceiver, TypeOK, tables
  <2> QED
    BY <1>0, <2>1, <2>3 DEF TypeOK, Sending
<1>7. ASSUME NEW s \in Sessions, MissReceiver(s)
      PROVE  FreshFor(p)'
  BY <1>0, <1>7 DEF MissReceiver, TypeOK, tables, Sending
<1>8. ASSUME NEW s \in Sessions, CommitTransfer(s)
      PROVE  FreshFor(p)'
  <2> DEFINE c == call[s]
             rows == {SentRow(c.wallet, c.amount, c.ref),
                      ReceivedRow(c.to, c.amount, c.ref)}
  <2>1. \A row \in rows : row.ref = c.ref
    BY DEF SentRow, ReceivedRow, CallerRow
  <2>2. ledger' = Insert(ledger, rows)
    BY <1>8 DEF CommitTransfer
  <2>3. \A row \in LedgerRow : row.ref # c.ref => ledger'[row] = ledger[row]
    <3> HIDE DEF rows, c
    <3> QED
      BY <2>1, <2>2, InsertValue DEF TypeOK
  <2>4. /\ pc' = [pc EXCEPT ![s] = "idle"] /\ pc[s] = "sent"
        /\ call' = [call EXCEPT ![s] = NoCall]
    BY <1>8 DEF CommitTransfer, EndSession
  <2> QED
    BY <1>0, <2>3, <2>4 DEF TypeOK, Sending
<1>9. ASSUME NEW w \in Wallets, OperatorSetsLock(w)
      PROVE  FreshFor(p)'
  BY <1>0, <1>9 DEF OperatorSetsLock
<1>10. CASE UNCHANGED vars
  BY <1>0, <1>10 DEF vars
<1> QED
  BY <1>1, <1>2, <1>3, <1>4, <1>5, <1>6, <1>7, <1>8, <1>9, <1>10
     DEF Next, SessionStep, UpdateMisses, Abort, DeadlockVictim

LEMMA FreshInvariant == Spec => []TransferRefsAreFresh
<1>1. Init => TransferRefsAreFresh
  BY DEF Init, TransferRefsAreFresh, Sending
<1>2. TypeOK /\ HeldRowsAreStable /\ TransferRefsAreFresh /\ [Next]_vars
          => TransferRefsAreFresh'
  BY FreshStep
<1>3. QED
  BY <1>1, <1>2, TypeCorrect, HeldInvariant, PTL DEF Spec

-----------------------------------------------------------------------------
\* A call about to post names a row of the ledger.
LEMMA RowOfCall ==
    ASSUME TypeOK, HeldRowsAreStable, NEW s \in Sessions,
           pc[s] \in {"checked", "updated"}
    PROVE  /\ RowOf(call[s]) \in LedgerRow
           /\ RowOf(call[s]).ref \in Refs
           /\ RowOf(call[s]).type = call[s].type
           /\ RowOf(call[s]).wallet = call[s].wallet
           /\ RowOf(call[s]).amount = call[s].amount
<1>1. call[s] \in Calls
  BY DEF TypeOK
<1>2. call[s].type \in Types /\ call[s].ref \in Refs /\ call[s].desc \in Descs
  BY DEF HeldRowsAreStable, HeldBy
<1>3. call[s].wallet \in Wallets /\ call[s].amount \in Amounts
  BY <1>1, CallFields
<1> DEFINE c == call[s]
<1> HIDE DEF c
<1>4. CallerRow(c.wallet, c.type, c.amount, c.ref, c.desc) \in LedgerRow
  BY <1>2, <1>3 DEF CallerRow, LedgerRow, c
<1> QED
  BY <1>2, <1>4 DEF RowOf, CallerRow, c

\* Sessions that overlap on no row write it at most once between them.
LEMMA WrittenOnceStep ==
    ASSUME TypeOK, HeldRowsAreStable, TransferRefsAreFresh, WrittenOnce, [Next]_vars
    PROVE  WrittenOnce'
<1> DEFINE OnceFor(row) ==
        row \notin overlapped =>
          /\ ledger[row] <= 1
          /\ \A s, t \in Sessions : Pending(s, row) /\ Pending(t, row) => s = t
          /\ \A s \in Sessions : Pending(s, row) => ledger[row] = 0
<1> SUFFICES ASSUME NEW row \in LedgerRow
             PROVE  OnceFor(row)'
  BY DEF WrittenOnce
<1>0. OnceFor(row)
  BY DEF WrittenOnce
<1>1. ASSUME NEW s \in Sessions, NEW w \in Wallets, NEW t \in Types,
             NEW a \in Amounts, NEW r \in Refs, NEW d \in Descs,
             BeginPosting(s, w, t, a, r, d)
      PROVE  OnceFor(row)'
  <2> DEFINE mine == CallerRow(w, t, a, r, d)
  <2>1. RowOf(call'[s]) = mine
    BY <1>1 DEF BeginPosting, TypeOK, RowOf
  <2>2. \A q \in Sessions \ {s} : Pending(q, row)' <=> Pending(q, row)
    BY <1>1 DEF BeginPosting, Pending, TypeOK
  <2>3. Pending(s, row)' <=> row = mine
    BY <1>1, <2>1 DEF BeginPosting, Pending, TypeOK
  <2>4. ledger' = ledger /\ ledger[mine] = 0
    BY <1>1 DEF BeginPosting, tables
  <2>5. CASE \E q \in Sessions : Pending(q, mine)
    <3>1. overlapped' = overlapped \cup {mine}
      BY <1>1, <2>5 DEF BeginPosting, Pending
    <3> HIDE DEF mine
    <3> QED
      BY <1>0, <2>2, <2>3, <2>4, <3>1
  <2>6. CASE ~\E q \in Sessions : Pending(q, mine)
    <3>1. overlapped' = overlapped
      BY <1>1, <2>6 DEF BeginPosting, Pending
    <3> HIDE DEF mine
    <3> QED
      BY <1>0, <2>2, <2>3, <2>4, <2>6, <3>1
  <2> QED
    BY <2>5, <2>6
<1>2. ASSUME NEW s \in Sessions, UpdateWallet(s)
      PROVE  OnceFor(row)'
  BY <1>0, <1>2 DEF UpdateWallet, Pending, TypeOK, tables
<1>3. ASSUME NEW s \in Sessions, Rollback(s)
      PROVE  OnceFor(row)'
  BY <1>0, <1>3 DEF Rollback, EndSession, Pending, TypeOK, tables
<1>4. ASSUME NEW s \in Sessions, CommitPosting(s)
      PROVE  OnceFor(row)'
  <2>1. Pending(s, RowOf(call[s]))
    BY <1>4 DEF CommitPosting, Pending
  <2>2. /\ pc' = [pc EXCEPT ![s] = "idle"] /\ overlapped' = overlapped
        /\ call' = [call EXCEPT ![s] = NoCall]
        /\ ledger' = Insert(ledger, {RowOf(call[s])})
    BY <1>4 DEF CommitPosting, EndSession
  <2>3. ~Pending(s, row)' /\ \A q \in Sessions \ {s} : Pending(q, row)' <=> Pending(q, row)
    BY <2>2 DEF Pending, TypeOK
  <2>4. CASE row = RowOf(call[s])
    <3>1. ledger'[row] = ledger[row] + 1
      BY <2>2, <2>4, InsertValue DEF TypeOK
    <3> QED
      BY <1>0, <2>1, <2>2, <2>3, <2>4, <3>1
  <2>5. CASE row # RowOf(call[s])
    <3>1. ledger'[row] = ledger[row]
      BY <2>2, <2>5, InsertValue DEF TypeOK
    <3> QED
      BY <1>0, <2>2, <2>3, <3>1
  <2> QED
    BY <2>4, <2>5
<1>5. ASSUME NEW s \in Sessions, NEW w \in Wallets, NEW to \in Wallets,
             NEW a \in Amounts, NEW r \in TransferRefs,
             DebitSender(s, w, to, a, r)
      PROVE  OnceFor(row)'
  BY <1>0, <1>5 DEF DebitSender, Pending, TypeOK, tables
<1>6. ASSUME NEW s \in Sessions, CreditReceiver(s)
      PROVE  OnceFor(row)'
  BY <1>0, <1>6 DEF CreditReceiver, Pending, TypeOK, tables
<1>7. ASSUME NEW s \in Sessions, MissReceiver(s)
      PROVE  OnceFor(row)'
  BY <1>0, <1>7 DEF MissReceiver, Pending, TypeOK, tables
<1>8. ASSUME NEW s \in Sessions, CommitTransfer(s)
      PROVE  OnceFor(row)'
  <2> DEFINE c == call[s]
             rows == {SentRow(c.wallet, c.amount, c.ref),
                      ReceivedRow(c.to, c.amount, c.ref)}
  <2>1. c.ref \in TransferRefs
    BY <1>8 DEF CommitTransfer, HeldRowsAreStable, HeldBy, Sending
  <2>2. \A x \in rows : x.ref = c.ref
    BY DEF SentRow, ReceivedRow, CallerRow
  <2>3. \A x \in LedgerRow : x.ref = c.ref => ledger[x] = 0
    BY <1>8 DEF CommitTransfer, TransferRefsAreFresh, Sending
  <2>4. /\ pc' = [pc EXCEPT ![s] = "idle"] /\ overlapped' = overlapped
        /\ call' = [call EXCEPT ![s] = NoCall]
        /\ ledger' = Insert(ledger, rows)
    BY <1>8 DEF CommitTransfer, EndSession
  <2>5. ~Pending(s, row)' /\ \A q \in Sessions \ {s} : Pending(q, row)' <=> Pending(q, row)
    BY <2>4 DEF Pending, TypeOK
  <2>6. \A q \in Sessions : Pending(q, row) => row.ref \in Refs
    BY RowOfCall DEF Pending
  <2>7. ledger[row] \in Nat
    BY DEF TypeOK
  <2>8. CASE row \in rows
    <3>1. ledger'[row] = ledger[row] + 1
      BY <2>4, <2>8, InsertValue DEF TypeOK
    <3>2. ledger[row] = 0 /\ \A q \in Sessions : ~Pending(q, row)
      BY <2>1, <2>2, <2>3, <2>6, <2>8, RefsAreDisjoint
    <3> QED
      BY <2>5, <3>1, <3>2
  <2>9. CASE row \notin rows
    <3>1. ledger'[row] = ledger[row]
      BY <2>4, <2>9, InsertValue DEF TypeOK
    <3> QED
      BY <1>0, <2>4, <2>5, <3>1
  <2> QED
    BY <2>8, <2>9
<1>9. ASSUME NEW w \in Wallets, OperatorSetsLock(w)
      PROVE  OnceFor(row)'
  BY <1>0, <1>9 DEF OperatorSetsLock, Pending
<1>10. CASE UNCHANGED vars
  BY <1>0, <1>10 DEF vars, Pending
<1> QED
  BY <1>1, <1>2, <1>3, <1>4, <1>5, <1>6, <1>7, <1>8, <1>9, <1>10
     DEF Next, SessionStep, UpdateMisses, Abort, DeadlockVictim

\* A repeated credit or debit posts once unless two sessions passed the lookup
\* for it together.
THEOREM PostingsIdempotent == Spec => []IdempotentUnlessOverlapped
<1>1. Init => WrittenOnce
  BY DEF Init, WrittenOnce, Pending
<1>2. /\ TypeOK /\ HeldRowsAreStable /\ TransferRefsAreFresh /\ WrittenOnce
      /\ [Next]_vars
      => WrittenOnce'
  BY WrittenOnceStep
<1>3. WrittenOnce => IdempotentUnlessOverlapped
  BY DEF WrittenOnce, IdempotentUnlessOverlapped
<1>4. QED
  BY <1>1, <1>2, <1>3, TypeCorrect, HeldInvariant, FreshInvariant, PTL DEF Spec

-----------------------------------------------------------------------------
LEMMA AtomicInsert ==
    ASSUME NEW book, NEW rows
    PROVE  Atomic!Insert(book, rows) = Insert(book, rows)
BY DEF Atomic!Insert, Insert, Atomic!LedgerRow, LedgerRow, Atomic!Types, Types

\* A posting's COMMIT is a Credit or a Debit of the abstract wallet.
LEMMA CommitPostingIsAtomic ==
    ASSUME TypeOK, HeldRowsAreStable, NEW s \in Sessions, CommitPosting(s)
    PROVE  Atomic!Next
<1> DEFINE c == call[s]
           row == RowOf(c)
<1>1. HeldBy(s) /\ pc[s] = "updated"
  BY DEF HeldRowsAreStable, CommitPosting
<1>2. /\ row \in LedgerRow /\ row.type = c.type
      /\ row.wallet = c.wallet /\ row.amount = c.amount
  BY <1>1, RowOfCall
<1>3. c.type \in Types /\ Matches(c)
  BY <1>1 DEF HeldBy, Holding
<1>4. /\ balance' = [balance EXCEPT ![c.wallet] =
                       IF c.type = "CREDIT" THEN @ + c.amount ELSE @ - c.amount]
      /\ ledger' = Atomic!Insert(ledger, {row}) /\ locked' = locked
  BY AtomicInsert DEF CommitPosting
<1>5. /\ ~locked[c.wallet]
      /\ c.type # "CREDIT" => balance[c.wallet] >= c.amount
  BY <1>3 DEF Matches
<1>6. row \in Atomic!LedgerRow
  BY <1>2 DEF Atomic!LedgerRow, LedgerRow, Atomic!Types, Types
<1> HIDE DEF c, row
<1>7. CASE c.type = "CREDIT"
  <2>1. Atomic!Credit(row)
    BY <1>2, <1>4, <1>5, <1>7 DEF Atomic!Credit
  <2> QED
    BY <1>6, <2>1 DEF Atomic!Next
<1>8. CASE c.type = "DEBIT"
  <2>1. Atomic!Debit(row)
    BY <1>2, <1>4, <1>5, <1>8 DEF Atomic!Debit
  <2> QED
    BY <1>6, <2>1 DEF Atomic!Next
<1> QED
  BY <1>3, <1>7, <1>8 DEF Types

\* A transfer's COMMIT is one of the abstract transfers.
LEMMA CommitTransferIsAtomic ==
    ASSUME TypeOK, HeldRowsAreStable, TransferRefsAreFresh,
           NEW s \in Sessions, CommitTransfer(s)
    PROVE  Atomic!Next
<1> DEFINE from == call[s].wallet
           to == call[s].to
           a == call[s].amount
           r == call[s].ref
<1>1. HeldBy(s) /\ pc[s] = "sent" /\ call[s] \in Calls
  BY DEF HeldRowsAreStable, CommitTransfer, TypeOK
<1>2. Matches(call[s]) /\ call[s].type = "TRANSFER" /\ from # to /\ r \in TransferRefs
  BY <1>1 DEF HeldBy, Holding, Sending
<1>3. from \in Wallets /\ to \in Wallets /\ a \in Amounts /\ a \in Int
  BY <1>1, CallFields
<1>4. /\ ~locked[from] /\ balance[from] >= a
      /\ call[s].reached => ~locked[to]
  BY <1>1, <1>2 DEF Matches, HeldBy
<1>5. \A row \in Atomic!LedgerRow : row.ref = r => ledger[row] = 0
  BY <1>1 DEF TransferRefsAreFresh, Sending, Atomic!LedgerRow, LedgerRow,
              Atomic!Types, Types
<1>6. /\ balance' = [w \in Wallets |-> balance[w] - (IF w = from THEN a ELSE 0)
                                       + (IF w = to /\ call[s].reached THEN a ELSE 0)]
      /\ ledger' = Insert(ledger, {SentRow(from, a, r), ReceivedRow(to, a, r)})
      /\ locked' = locked
  BY DEF CommitTransfer
<1>7. ledger' = Atomic!Insert(ledger, {Atomic!SentRow(from, a, r),
                                       Atomic!ReceivedRow(to, a, r)})
  BY <1>6, AtomicInsert
     DEF Atomic!SentRow, Atomic!ReceivedRow, Atomic!CallerRow, SentRow,
         ReceivedRow, CallerRow
<1>8. balance \in [Wallets -> Int]
  BY DEF TypeOK
<1> DEFINE both == [balance EXCEPT ![from] = @ - a, ![to] = @ + a]
           one == [balance EXCEPT ![from] = @ - a]
<1>9. /\ balance' = [w \in Wallets |-> balance'[w]]
      /\ both = [w \in Wallets |-> both[w]]
      /\ one = [w \in Wallets |-> one[w]]
  BY <1>6, <1>8
<1>10. CASE call[s].reached
  <2>1. ASSUME NEW w \in Wallets PROVE balance'[w] = both[w]
    <3>1. both[w] = IF w = to THEN balance[w] + a
                    ELSE IF w = from THEN balance[w] - a ELSE balance[w]
      BY <1>2, <1>8
    <3>2. balance'[w] = IF w = to THEN balance[w] + a
                        ELSE IF w = from THEN balance[w] - a ELSE balance[w]
      BY <1>2, <1>10, TransferBalance
    <3> QED
      BY <3>1, <3>2
  <2> HIDE DEF both, one, from, to, a, r
  <2>2. balance' = both
    BY <1>9, <2>1
  <2>3. Atomic!Transfer(from, to, a, r)
    BY <1>2, <1>4, <1>5, <1>6, <1>7, <1>10, <2>2 DEF Atomic!Transfer, both
  <2> QED
    BY <1>2, <1>3, <2>3 DEF Atomic!Next
<1>11. CASE ~call[s].reached
  <2>1. ASSUME NEW w \in Wallets PROVE balance'[w] = one[w]
    <3>1. one[w] = IF w = from THEN balance[w] - a ELSE balance[w]
      BY <1>8
    <3>2. balance'[w] = IF w = from THEN balance[w] - a ELSE balance[w]
      BY <1>2, <1>11, TransferBalance
    <3> QED
      BY <3>1, <3>2
  <2> HIDE DEF both, one, from, to, a, r
  <2>2. balance' = one
    BY <1>9, <2>1
  <2>3. Atomic!TransferIntoLocked(from, to, a, r)
    BY <1>2, <1>4, <1>5, <1>6, <1>7, <2>2 DEF Atomic!TransferIntoLocked, one
  <2> QED
    BY <1>2, <1>3, <2>3 DEF Atomic!Next
<1> QED
  BY <1>10, <1>11

\* What callers see of the interleaved sessions is a behaviour of the
\* indivisible wallet.
THEOREM SessionsImplementAtomicWallet == Spec => ImplementsAtomicWallet
<1>1. Init => Atomic!Init
  BY DEF Init, Atomic!Init, Atomic!LedgerRow, LedgerRow, Atomic!Types, Types
<1>2. TypeOK /\ HeldRowsAreStable /\ TransferRefsAreFresh /\ [Next]_vars
          => [Atomic!Next]_(Atomic!vars)
  <2> SUFFICES ASSUME TypeOK, HeldRowsAreStable, TransferRefsAreFresh, [Next]_vars
               PROVE  [Atomic!Next]_(Atomic!vars)
    OBVIOUS
  <2>1. ASSUME NEW s \in Sessions, CommitPosting(s)
        PROVE  Atomic!Next
    BY <2>1, CommitPostingIsAtomic
  <2>2. ASSUME NEW s \in Sessions, CommitTransfer(s)
        PROVE  Atomic!Next
    BY <2>2, CommitTransferIsAtomic
  <2>3. ASSUME NEW w \in Wallets, OperatorSetsLock(w)
        PROVE  Atomic!Next
    BY <2>3 DEF OperatorSetsLock, Atomic!Next, Atomic!SetLocked
  <2>4. CASE UNCHANGED tables
    BY <2>4 DEF tables, Atomic!vars
  <2>5. \/ \E s \in Sessions : CommitPosting(s) \/ CommitTransfer(s)
        \/ \E w \in Wallets : OperatorSetsLock(w)
        \/ UNCHANGED tables
    <3>1. ASSUME NEW s \in Sessions, SessionStep(s)
          PROVE  CommitPosting(s) \/ CommitTransfer(s) \/ UNCHANGED tables
      BY <3>1 DEF SessionStep, BeginPosting, UpdateWallet, UpdateMisses,
           DebitSender, CreditReceiver, MissReceiver, Abort, DeadlockVictim,
           Rollback
    <3> QED
      BY <3>1 DEF Next, vars, tables
  <2> QED
    BY <2>1, <2>2, <2>3, <2>4, <2>5
<1>3. QED
  BY <1>1, <1>2, TypeCorrect, HeldInvariant, FreshInvariant, PTL
     DEF Spec, ImplementsAtomicWallet, Atomic!Spec

-----------------------------------------------------------------------------
(***************************************************************************)
(* Sums over finite sets.  The induction is on the least cardinality for   *)
(* which a statement about subsets is false.                               *)
(***************************************************************************)

\* A set of natural numbers has a least one.
LEMMA LeastNatural ==
    ASSUME NEW T \in SUBSET Nat, T # {}
    PROVE  \E m \in T : \A k \in T : m <= k
<1> DEFINE R == {ss \in Nat \X Nat : ss[1] < ss[2]}
<1>1. IsWellFoundedOn(R, Nat)
  BY NatLessThanWellFounded DEF OpToRel
<1>2. \A k, m \in Nat : k < m => <<k, m>> \in R
  OBVIOUS
<1> HIDE DEF R
<1>3. \E m \in T : \A k \in T : ~(<<k, m>> \in R)
  BY <1>1, WFMin
<1>4. PICK m \in T : \A k \in T : ~(<<k, m>> \in R)
  BY <1>3
<1>5. ASSUME NEW k \in T PROVE m <= k
  <2>1. m \in Nat /\ k \in Nat /\ ~(k < m)
    BY <1>2, <1>4
  <2>2. QED
    BY <2>1
<1>6. QED
  BY <1>5

\* What SumFunctionOnSet(v, S) is the value of: a function on the subsets of S
\* that takes one element after the other.
Rest(s) == s \ {CHOOSE x \in s : TRUE}
Folded(v, g, s) == IF s = {} THEN 0 ELSE v[CHOOSE x \in s : TRUE] + g[Rest(s)]
Folds(v, g, S) == g = [s \in SUBSET S |-> Folded(v, g, s)]

LEMMA SumIsFold ==
    ASSUME NEW v, NEW S
    PROVE  SumFunctionOnSet(v, S) = (CHOOSE g : Folds(v, g, S))[S]
BY DEF SumFunctionOnSet, FoldFunctionOnSet, MapThenFoldSet, Folds, Folded, Rest

LEMMA RestIsLess ==
    ASSUME NEW s, IsFiniteSet(s), s # {}
    PROVE  /\ Rest(s) \subseteq s /\ IsFiniteSet(Rest(s))
           /\ Cardinality(s) \in Nat \ {0} /\ Cardinality(Rest(s)) = Cardinality(s) - 1
<1>1. (CHOOSE x \in s : TRUE) \in s
  OBVIOUS
<1>2. QED
  BY <1>1, FS_RemoveElement, FS_CardinalityType, FS_EmptySet DEF Rest

\* There is such a function: up to each cardinality, and so altogether.
LEMMA FoldExists ==
    ASSUME NEW v, NEW S, IsFiniteSet(S)
    PROVE  \E g : Folds(v, g, S)
<1> DEFINE Level(n) == {s \in SUBSET S : Cardinality(s) <= n}
           UpTo(n) == \E g : g = [s \in Level(n) |-> Folded(v, g, s)]
           T == {n \in Nat : ~UpTo(n)}
<1>1. \A s \in SUBSET S : IsFiniteSet(s) /\ Cardinality(s) \in Nat
                          /\ Cardinality(s) <= Cardinality(S)
  BY FS_Subset, FS_CardinalityType
<1>2. UpTo(0)
  <2>1. \A s \in Level(0) : s = {}
    BY <1>1, FS_EmptySet
  <2> DEFINE g == [s \in Level(0) |-> 0]
  <2>2. \A s \in Level(0) : Folded(v, g, s) = 0
    BY <2>1 DEF Folded
  <2>3. g = [s \in Level(0) |-> Folded(v, g, s)]
    BY <2>2
  <2>4. QED
    BY <2>3
<1>3. ASSUME NEW n \in Nat, UpTo(n) PROVE UpTo(n + 1)
  <2>1. PICK g : g = [s \in Level(n) |-> Folded(v, g, s)]
    BY <1>3
  <2> DEFINE h == [s \in Level(n + 1) |-> Folded(v, g, s)]
  <2>2. ASSUME NEW s \in Level(n + 1) PROVE Folded(v, g, s) = Folded(v, h, s)
    <3>1. CASE s = {}
      BY <3>1 DEF Folded
    <3>2. CASE s # {}
      <4>1. Rest(s) \in Level(n) /\ Rest(s) \in Level(n + 1)
        BY <1>1, <3>2, RestIsLess
      <4>2. h[Rest(s)] = Folded(v, g, Rest(s)) /\ g[Rest(s)] = Folded(v, g, Rest(s))
        BY <2>1, <4>1
      <4>3. QED
        BY <3>2, <4>2 DEF Folded
    <3>3. QED
      BY <3>1, <3>2
  <2>3. h = [s \in Level(n + 1) |-> Folded(v, h, s)]
    BY <2>2
  <2>4. QED
    BY <2>3
<1>4. T = {}
  <2> SUFFICES ASSUME T # {} PROVE FALSE
    OBVIOUS
  <2>1. PICK m \in T : \A k \in T : m <= k
    BY LeastNatural
  <2> HIDE DEF UpTo
  <2>2. m # 0 /\ m \in Nat
    BY <1>2
  <2>3. m - 1 \in Nat /\ ~(m <= m - 1)
    BY <2>2
  <2>4. UpTo(m - 1)
    BY <2>1, <2>3
  <2>5. UpTo((m - 1) + 1)
    BY <1>3, <2>3, <2>4
  <2>6. QED
    BY <2>2, <2>5
<1>5. UpTo(Cardinality(S))
  <2> HIDE DEF UpTo
  <2>1. QED
    BY <1>1, <1>4
<1>6. Level(Cardinality(S)) = SUBSET S
  BY <1>1
<1>7. QED
  BY <1>5, <1>6 DEF Folds

\* It is the same on the subsets of a smaller set.
LEMMA FoldIsUnique ==
    ASSUME NEW v, NEW S, IsFiniteSet(S), NEW R \in SUBSET S,
           NEW g, Folds(v, g, S), NEW h, Folds(v, h, R)
    PROVE  \A s \in SUBSET R : g[s] = h[s]
<1> DEFINE T == {n \in Nat : \E s \in SUBSET R : Cardinality(s) = n /\ g[s] # h[s]}
<1> SUFFICES ASSUME T # {} PROVE FALSE
  BY FS_Subset, FS_CardinalityType
<1>1. PICK m \in T : \A k \in T : m <= k
  BY LeastNatural
<1>2. PICK s \in SUBSET R : Cardinality(s) = m /\ g[s] # h[s]
  OBVIOUS
<1>3. g[s] = Folded(v, g, s) /\ h[s] = Folded(v, h, s) /\ IsFiniteSet(s)
  BY FS_Subset DEF Folds
<1>4. s # {}
  BY <1>2, <1>3 DEF Folded
<1>5. /\ Rest(s) \in SUBSET R /\ Cardinality(Rest(s)) \in Nat /\ m \in Nat
      /\ Cardinality(Rest(s)) < m
  BY <1>2, <1>3, <1>4, RestIsLess
<1>6. g[Rest(s)] = h[Rest(s)]
  BY <1>1, <1>5
<1>7. QED
  BY <1>2, <1>3, <1>4, <1>6 DEF Folded

\* The sum over a set is that of one element and of the rest.
LEMMA SumUnfolds ==
    ASSUME NEW v, NEW S, IsFiniteSet(S)
    PROVE  SumFunctionOnSet(v, S) =
             IF S = {} THEN 0
             ELSE v[CHOOSE x \in S : TRUE] + SumFunctionOnSet(v, Rest(S))
<1>1. PICK g : g = CHOOSE f : Folds(v, f, S)
  OBVIOUS
<1>2. Folds(v, g, S) /\ SumFunctionOnSet(v, S) = g[S]
  BY <1>1, FoldExists, SumIsFold
<1>3. g[S] = Folded(v, g, S)
  BY <1>2 DEF Folds
<1>4. CASE S = {}
  BY <1>2, <1>3, <1>4 DEF Folded
<1>5. CASE S # {}
  <2>1. Rest(S) \subseteq S /\ IsFiniteSet(Rest(S))
    BY <1>5, RestIsLess
  <2>2. PICK h : h = CHOOSE f : Folds(v, f, Rest(S))
    OBVIOUS
  <2>3. Folds(v, h, Rest(S)) /\ SumFunctionOnSet(v, Rest(S)) = h[Rest(S)]
    BY <2>1, <2>2, FoldExists, SumIsFold
  <2>4. g[Rest(S)] = h[Rest(S)]
    BY <1>2, <2>1, <2>3, FoldIsUnique
  <2>5. QED
    BY <1>2, <1>3, <1>5, <2>3, <2>4 DEF Folded
<1>6. QED
  BY <1>4, <1>5

LEMMA SumIsInt ==
    ASSUME NEW D, NEW v \in [D -> Int], NEW S \in SUBSET D, IsFiniteSet(S)
    PROVE  SumFunctionOnSet(v, S) \in Int
<1> DEFINE T == {n \in Nat : \E s \in SUBSET S :
                     Cardinality(s) = n /\ SumFunctionOnSet(v, s) \notin Int}
<1> SUFFICES ASSUME T # {} PROVE FALSE
  BY FS_CardinalityType
<1>1. PICK m \in T : \A k \in T : m <= k
  BY LeastNatural
<1>2. PICK s \in SUBSET S : Cardinality(s) = m /\ SumFunctionOnSet(v, s) \notin Int
  OBVIOUS
<1>3. IsFiniteSet(s)
  BY FS_Subset
<1>4. s # {}
  BY <1>2, <1>3, SumUnfolds
<1>5. /\ Rest(s) \in SUBSET S /\ Cardinality(Rest(s)) \in Nat /\ m \in Nat
      /\ Cardinality(Rest(s)) < m
  BY <1>2, <1>3, <1>4, RestIsLess
<1>6. SumFunctionOnSet(v, Rest(s)) \in Int
  BY <1>1, <1>5
<1>7. v[CHOOSE x \in s : TRUE] \in Int
  BY <1>4
<1>8. QED
  BY <1>2, <1>3, <1>4, <1>6, <1>7, SumUnfolds

\* The element that is taken off first does not matter.
LEMMA SumTakesOff ==
    ASSUME NEW D, NEW v \in [D -> Int], NEW S \in SUBSET D, IsFiniteSet(S), NEW x \in S
    PROVE  SumFunctionOnSet(v, S) = v[x] + SumFunctionOnSet(v, S \ {x})
<1> DEFINE Sum(s) == SumFunctionOnSet(v, s)
           T == {n \in Nat : \E s \in SUBSET S : \E y \in s :
                     Cardinality(s) = n /\ Sum(s) # v[y] + Sum(s \ {y})}
<1> SUFFICES ASSUME T # {} PROVE FALSE
  BY FS_CardinalityType
<1>1. PICK m \in T : \A k \in T : m <= k
  BY LeastNatural
<1>2. PICK s \in SUBSET S : \E y \in s : Cardinality(s) = m /\ Sum(s) # v[y] + Sum(s \ {y})
  OBVIOUS
<1>3. PICK y \in s : Cardinality(s) = m /\ Sum(s) # v[y] + Sum(s \ {y})
  BY <1>2
<1>4. IsFiniteSet(s) /\ s # {}
  BY FS_Subset
<1>5. PICK z \in s : z = CHOOSE a \in s : TRUE
  BY <1>4
<1>6. Rest(s) = s \ {z}
  BY <1>5 DEF Rest
<1>7. Sum(s) = v[z] + Sum(s \ {z})
  BY <1>4, <1>5, <1>6, SumUnfolds
<1>8. y # z
  BY <1>3, <1>7
<1>9. ASSUME NEW a \in s
      PROVE  /\ IsFiniteSet(s \ {a}) /\ Cardinality(s \ {a}) \in Nat
             /\ Cardinality(s \ {a}) < m /\ s \ {a} \in SUBSET S
  <2>1. m \in Nat /\ Cardinality(s) = m
    BY <1>3
  <2>2. IsFiniteSet(s \ {a}) /\ Cardinality(s \ {a}) = Cardinality(s) - 1
    BY <1>4, FS_RemoveElement
  <2>3. Cardinality(s \ {a}) \in Nat
    BY <2>2, FS_CardinalityType
  <2>4. QED
    BY <2>1, <2>2, <2>3
<1>10. ASSUME NEW a \in s, NEW b \in s, a # b
       PROVE  Sum(s \ {a}) = v[b] + Sum((s \ {a}) \ {b})
  <2>1. b \in s \ {a}
    BY <1>10
  <2>2. PICK k \in Nat : k = Cardinality(s \ {a}) /\ k < m
    BY <1>9
  <2>3. Cardinality(s \ {a}) \notin T
    <3>1. m \in Nat /\ ~(m <= k)
      BY <2>2
    <3>2. QED
      BY <1>1, <2>2, <3>1
  <2> HIDE DEF Sum
  <2>4. QED
    BY <1>9, <2>1, <2>3
<1>11. /\ Sum(s \ {z}) = v[y] + Sum((s \ {z}) \ {y})
       /\ Sum(s \ {y}) = v[z] + Sum((s \ {y}) \ {z})
  BY <1>8, <1>10
<1>12. (s \ {z}) \ {y} = (s \ {y}) \ {z}
  OBVIOUS
<1>13. Sum((s \ {y}) \ {z}) \in Int
  <2>1. IsFiniteSet((s \ {y}) \ {z})
    BY <1>9, FS_RemoveElement
  <2>2. QED
    BY <2>1, SumIsInt
<1>14. v[y] \in Int /\ v[z] \in Int
  OBVIOUS
<1>15. PICK rest \in Int : rest = Sum((s \ {y}) \ {z})
  BY <1>13
<1> HIDE DEF Sum, T
<1>16. Sum(s) = v[z] + (v[y] + rest) /\ Sum(s \ {y}) = v[z] + rest
  BY <1>7, <1>11, <1>12, <1>15
<1>17. QED
  BY <1>3, <1>14, <1>16

\* The sum depends on the values of the elements alone.
LEMMA SumsAgree ==
    ASSUME NEW v, NEW w, NEW S, IsFiniteSet(S), \A x \in S : v[x] = w[x]
    PROVE  SumFunctionOnSet(v, S) = SumFunctionOnSet(w, S)
<1> DEFINE T == {n \in Nat : \E s \in SUBSET S :
                     Cardinality(s) = n /\ SumFunctionOnSet(v, s) # SumFunctionOnSet(w, s)}
<1> SUFFICES ASSUME T # {} PROVE FALSE
  BY FS_CardinalityType
<1>1. PICK m \in T : \A k \in T : m <= k
  BY LeastNatural
<1>2. PICK s \in SUBSET S :
          Cardinality(s) = m /\ SumFunctionOnSet(v, s) # SumFunctionOnSet(w, s)
  OBVIOUS
<1>3. IsFiniteSet(s)
  BY FS_Subset
<1>4. s # {}
  BY <1>2, <1>3, SumUnfolds
<1>5. /\ Rest(s) \in SUBSET S /\ Cardinality(Rest(s)) \in Nat /\ m \in Nat
      /\ Cardinality(Rest(s)) < m
  BY <1>2, <1>3, <1>4, RestIsLess
<1>6. SumFunctionOnSet(v, Rest(s)) = SumFunctionOnSet(w, Rest(s))
  BY <1>1, <1>5
<1>7. v[CHOOSE x \in s : TRUE] = w[CHOOSE x \in s : TRUE]
  BY <1>4
<1>8. QED
  BY <1>2, <1>3, <1>4, <1>6, <1>7, SumUnfolds

\* One entry changes, or is added, and the sum changes by as much.
LEMMA SumChanges ==
    ASSUME NEW D, NEW v \in [D -> Int], NEW w \in [D -> Int],
           NEW S \in SUBSET D, IsFiniteSet(S), NEW x \in D,
           \A y \in S \ {x} : w[y] = v[y],
           x \notin S => v[x] = 0
    PROVE  SumFunctionOnSet(w, S \cup {x}) = SumFunctionOnSet(v, S) + w[x] - v[x]
<1>1. IsFiniteSet(S \cup {x}) /\ IsFiniteSet(S \ {x}) /\ S \cup {x} \in SUBSET D
  BY FS_AddElement, FS_RemoveElement
<1>2. (S \cup {x}) \ {x} = S \ {x}
  OBVIOUS
<1>3. SumFunctionOnSet(w, S \cup {x}) = w[x] + SumFunctionOnSet(w, S \ {x})
  BY <1>1, <1>2, SumTakesOff
<1>4. SumFunctionOnSet(w, S \ {x}) = SumFunctionOnSet(v, S \ {x})
  BY <1>1, SumsAgree
<1>5. SumFunctionOnSet(v, S \ {x}) \in Int /\ w[x] \in Int /\ v[x] \in Int
  BY <1>1, SumIsInt
<1>6. CASE x \in S
  BY <1>3, <1>4, <1>5, <1>6, SumTakesOff
<1>7. CASE x \notin S
  <2>1. S \ {x} = S
    BY <1>7
  <2>2. SumFunctionOnSet(v, S \ {x}) = SumFunctionOnSet(v, S)
    BY <2>1
  <2>3. QED
    BY <1>3, <1>4, <1>5, <1>7, <2>2
<1>8. QED
  BY <1>6, <1>7

-----------------------------------------------------------------------------
(***************************************************************************)
(* What the ledger explains.                                               *)
(***************************************************************************)
LEMMA MovementsType ==
    ASSUME NEW book \in [LedgerRow -> Nat]
    PROVE  /\ Movements(book) \in [LedgerRow -> Int]
           /\ \A row \in LedgerRow : /\ Signed(row) \in Int
                                     /\ Movements(book)[row] = book[row] * Signed(row)
<1>1. ASSUME NEW row \in LedgerRow PROVE Signed(row) \in Int
  <2>1. PICK a \in Nat : a = row.amount
    BY AmountsArePositive DEF LedgerRow
  <2>2. -a \in Int
    BY <2>1
  <2>3. QED
    BY <2>1, <2>2 DEF Signed
<1>2. ASSUME NEW row \in LedgerRow PROVE book[row] * Signed(row) \in Int
  <2>1. book[row] \in Int
    OBVIOUS
  <2>2. QED
    BY <1>1, <2>1
<1>3. QED
  BY <1>1, <1>2 DEF Movements

\* Rows that were inserted at all are finitely many.
Written(book) == {row \in LedgerRow : book[row] > 0}

LEMMA StatementIsFinite ==
    ASSUME NEW book, IsFiniteSet(Written(book)), NEW w
    PROVE  IsFiniteSet(Statement(book, w)) /\ Statement(book, w) \in SUBSET LedgerRow
BY FS_Subset DEF Statement, Written

LEMMA InsertIsFinite ==
    ASSUME NEW book \in [LedgerRow -> Nat], IsFiniteSet(Written(book)),
           NEW rows, IsFiniteSet(rows)
    PROVE  IsFiniteSet(Written(Insert(book, rows)))
<1>1. Written(Insert(book, rows)) \subseteq Written(book) \cup rows
  BY DEF Written, Insert
<1>2. IsFiniteSet(Written(book) \cup rows)
  BY FS_Union
<1>3. QED
  BY <1>1, <1>2, FS_Subset

\* INSERTs for other wallets leave what the rows of this one come to.
LEMMA OthersReckoning ==
    ASSUME NEW book \in [LedgerRow -> Nat], IsFiniteSet(Written(book)),
           NEW rows \in SUBSET LedgerRow, NEW w, \A row \in rows : row.wallet # w
    PROVE  Reckoning(Insert(book, rows), w) = Reckoning(book, w)
<1> DEFINE after == Insert(book, rows)
           S == Statement(book, w)
<1>1. \A row \in LedgerRow : row.wallet = w => after[row] = book[row]
  BY DEF Insert
<1>2. Statement(after, w) = S
  BY <1>1 DEF Statement
<1>3. after \in [LedgerRow -> Nat]
  BY InsertType
<1>4. \A row \in S : Movements(after)[row] = Movements(book)[row]
  BY <1>1, <1>3, MovementsType DEF Statement
<1>5. IsFiniteSet(S)
  BY StatementIsFinite
<1> HIDE DEF after, S
<1>6. SumFunctionOnSet(Movements(after), S) = SumFunctionOnSet(Movements(book), S)
  BY <1>4, <1>5, SumsAgree
<1>7. QED
  BY <1>2, <1>6 DEF Reckoning, after, S

\* An INSERT of one row for a wallet moves it by the row's amount.
LEMMA OwnReckoning ==
    ASSUME NEW book \in [LedgerRow -> Nat], IsFiniteSet(Written(book)),
           NEW rows \in SUBSET LedgerRow, NEW x \in rows,
           \A row \in rows : row.wallet = x.wallet => row = x
    PROVE  /\ Reckoning(book, x.wallet) \in Int
           /\ Reckoning(Insert(book, rows), x.wallet) = Reckoning(book, x.wallet) + Signed(x)
<1> DEFINE after == Insert(book, rows)
           S == Statement(book, x.wallet)
           v == Movements(book)
           u == Movements(after)
<1>1. \A row \in LedgerRow :
          row.wallet = x.wallet => after[row] = IF row = x THEN book[row] + 1 ELSE book[row]
  BY DEF Insert
<1>2. Statement(after, x.wallet) = S \cup {x}
  BY <1>1 DEF Statement
<1>3. after \in [LedgerRow -> Nat]
  BY InsertType
<1>4. v \in [LedgerRow -> Int] /\ u \in [LedgerRow -> Int]
  BY <1>3, MovementsType
<1>5. IsFiniteSet(S) /\ S \in SUBSET LedgerRow /\ x \in LedgerRow
  BY StatementIsFinite
<1>6. \A row \in S \ {x} : u[row] = v[row]
  BY <1>1, <1>3, MovementsType DEF Statement
<1>7. (x \notin S => v[x] = 0) /\ u[x] = v[x] + Signed(x)
  <2>1. PICK a \in Int : a = Signed(x)
    BY MovementsType
  <2>2. v[x] = book[x] * a /\ u[x] = after[x] * a
    BY <1>3, <2>1, MovementsType
  <2>3. after[x] = book[x] + 1 /\ book[x] \in Nat
    BY <1>1
  <2>4. (book[x] + 1) * a = book[x] * a + a
    BY <2>1, <2>3
  <2>5. x \notin S => book[x] = 0
    BY <2>3 DEF Statement
  <2>6. x \notin S => v[x] = 0
    BY <2>1, <2>2, <2>5
  <2>7. QED
    BY <2>1, <2>2, <2>3, <2>4, <2>6
<1> HIDE DEF after, S, u, v
<1>8. SumFunctionOnSet(u, S \cup {x}) = SumFunctionOnSet(v, S) + u[x] - v[x]
  BY <1>4, <1>5, <1>6, <1>7, SumChanges
<1>9. SumFunctionOnSet(v, S) \in Int /\ v[x] \in Int /\ Signed(x) \in Int
  BY <1>4, <1>5, SumIsInt, MovementsType
<1>10. SumFunctionOnSet(u, S \cup {x}) = SumFunctionOnSet(v, S) + Signed(x)
  BY <1>7, <1>8, <1>9
<1>11. QED
  BY <1>2, <1>9, <1>10 DEF Reckoning, after, S, u, v

\* Only a wallet that an operator may lock can be missed by a transfer.
MissedAreLockable ==
    /\ \A w \in Wallets : locked[w] => w \in Lockable
    /\ \A s \in Sessions : pc[s] = "sent" /\ ~call[s].reached => call[s].to \in Lockable

LEMMA MissedStep ==
    ASSUME TypeOK, MissedAreLockable, [Next]_vars
    PROVE  MissedAreLockable'
<1> DEFINE Missed(t) == pc[t] = "sent" /\ ~call[t].reached => call[t].to \in Lockable
<1>1. \A w \in Wallets : locked'[w] => w \in Lockable
  <2>1. ASSUME NEW w \in Wallets, OperatorSetsLock(w)
        PROVE  \A other \in Wallets : locked'[other] => other \in Lockable
    BY <2>1 DEF OperatorSetsLock, MissedAreLockable, TypeOK
  <2>2. CASE locked' = locked
    BY <2>2 DEF MissedAreLockable
  <2>3. ASSUME NEW s \in Sessions, SessionStep(s) PROVE locked' = locked
    BY <2>3 DEF SessionStep, BeginPosting, UpdateWallet, UpdateMisses, CommitPosting,
                DebitSender, CreditReceiver, MissReceiver, CommitTransfer, Abort,
                DeadlockVictim, Rollback, tables
  <2>4. QED
    BY <2>1, <2>2, <2>3 DEF Next, vars
<1>2. ASSUME NEW s \in Sessions, SessionStep(s)
      PROVE  \A t \in Sessions : Missed(t)'
  <2>1. ASSUME NEW t \in Sessions \ {s} PROVE Missed(t)'
    <3>1. pc'[t] = pc[t] /\ call'[t] = call[t]
      <4>1. CASE EndSession(s)
        BY <4>1 DEF EndSession, TypeOK
      <4>2. ASSUME NEW w \in Wallets, NEW k \in Types, NEW a \in Amounts, NEW r \in Refs,
                   NEW d \in Descs, BeginPosting(s, w, k, a, r, d)
            PROVE  pc'[t] = pc[t] /\ call'[t] = call[t]
        BY <4>2 DEF BeginPosting, TypeOK
      <4>3. ASSUME NEW w \in Wallets, NEW to \in Wallets, NEW a \in Amounts,
                   NEW r \in TransferRefs, DebitSender(s, w, to, a, r)
            PROVE  pc'[t] = pc[t] /\ call'[t] = call[t]
        BY <4>3 DEF DebitSender, TypeOK
      <4>4. CASE UpdateWallet(s) \/ CreditReceiver(s) \/ MissReceiver(s)
        BY <4>4 DEF UpdateWallet, CreditReceiver, MissReceiver, TypeOK
      <4>5. QED
        BY <1>2, <4>1, <4>2, <4>3, <4>4
           DEF SessionStep, UpdateMisses, CommitPosting, CommitTransfer, Abort,
               DeadlockVictim, Rollback
    <3>2. QED
      BY <3>1 DEF MissedAreLockable
  <2>2. Missed(s)'
    <3>1. CASE CreditReceiver(s)
      <4>1. call[s] \in Calls /\ call' = [call EXCEPT ![s] = [call[s] EXCEPT !.reached = TRUE]]
        BY <3>1 DEF CreditReceiver, TypeOK
      <4>2. call'[s].reached
        BY <4>1 DEF TypeOK, Calls
      <4>3. QED
        BY <4>2
    <3>2. CASE MissReceiver(s)
      <4>1. call[s] \in Calls
        BY <3>2 DEF MissReceiver, TypeOK
      <4>2. call[s].to \in Wallets /\ locked[call[s].to] /\ call' = call
        BY <3>2, <4>1, CallFields DEF MissReceiver
      <4>3. QED
        BY <4>2 DEF MissedAreLockable
    <3>3. CASE ~CreditReceiver(s) /\ ~MissReceiver(s)
      <4>1. pc'[s] # "sent"
        BY <1>2, <3>3
           DEF SessionStep, BeginPosting, UpdateWallet, UpdateMisses, CommitPosting,
               DebitSender, CommitTransfer, Abort, DeadlockVictim, Rollback, EndSession, TypeOK
      <4>2. QED
        BY <4>1
    <3>4. QED
      BY <3>1, <3>2, <3>3
  <2>3. QED
    BY <2>1, <2>2
<1>3. CASE \A s \in Sessions : ~SessionStep(s)
  <2>1. pc' = pc /\ call' = call
    BY <1>3 DEF Next, OperatorSetsLock, vars
  <2>2. \A t \in Sessions : Missed(t)'
    BY <2>1 DEF MissedAreLockable
  <2>3. QED
    BY <1>1, <2>2 DEF MissedAreLockable
<1>4. QED
  BY <1>1, <1>2, <1>3 DEF MissedAreLockable

\* A posting moves balance and reckoning of its wallet by the same amount.
LEMMA PostingExplained ==
    ASSUME TypeOK, HeldRowsAreStable, IsFiniteSet(Written(ledger)), LedgerExplainsBalance,
           NEW s \in Sessions, CommitPosting(s)
    PROVE  IsFiniteSet(Written(ledger)') /\ LedgerExplainsBalance'
<1> DEFINE c == call[s]
<1>1. pc[s] = "updated" /\ ledger' = Insert(ledger, {RowOf(c)})
  BY DEF CommitPosting
<1>2. RowOf(c) \in LedgerRow /\ c \in Calls
  BY <1>1, RowOfCall DEF TypeOK
<1>3. PICK x \in LedgerRow : x = RowOf(c)
  BY <1>2
<1>4. c.type \in Types /\ c.amount \in Int
  BY <1>1, <1>2, CallFields DEF HeldRowsAreStable, HeldBy
<1>5. x.wallet = c.wallet /\ Signed(x) = IF c.type = "CREDIT" THEN c.amount ELSE -c.amount
  BY <1>3 DEF RowOf, CallerRow, Signed
<1>6. PICK book \in [LedgerRow -> Nat] : book = ledger
  BY DEF TypeOK
<1>7. ledger' = Insert(book, {x}) /\ IsFiniteSet(Written(book))
  BY <1>1, <1>3, <1>6
<1>8. IsFiniteSet(Written(ledger)')
  <2>1. IsFiniteSet(Written(Insert(book, {x})))
    BY <1>7, InsertIsFinite, FS_Singleton
  <2>2. QED
    BY <1>7, <2>1 DEF Written
<1>9. ASSUME NEW w \in Wallets
      PROVE  /\ balance'[w] <= Opening[w] + Reckoning(ledger', w)
             /\ w \notin Lockable => balance'[w] = Opening[w] + Reckoning(ledger', w)
  <2>1. /\ balance[w] <= Opening[w] + Reckoning(book, w)
        /\ w \notin Lockable => balance[w] = Opening[w] + Reckoning(book, w)
    BY <1>6 DEF LedgerExplainsBalance
  <2>2. CASE w # c.wallet
    <3>1. Reckoning(Insert(book, {x}), w) = Reckoning(book, w)
      BY <1>5, <1>7, <2>2, OthersReckoning
    <3>2. balance'[w] = balance[w]
      BY <2>2, PostingBalance
    <3>3. QED
      BY <1>7, <2>1, <3>1, <3>2
  <2>3. CASE w = c.wallet
    <3>1. /\ Reckoning(book, w) \in Int
          /\ Reckoning(Insert(book, {x}), w) = Reckoning(book, w) + Signed(x)
      BY <1>5, <1>7, <2>3, OwnReckoning
    <3>2. balance'[w] = balance[w] + Signed(x) /\ Signed(x) \in Int
      <4>1. /\ c.type = "CREDIT" => balance'[w] = balance[w] + c.amount
            /\ c.type # "CREDIT" => balance'[w] = balance[w] - c.amount
        BY <2>3, PostingBalance
      <4>2. balance[w] \in Int
        BY DEF TypeOK
      <4> HIDE DEF c
      <4>3. QED
        BY <1>4, <1>5, <4>1, <4>2
    <3>3. balance[w] \in Int /\ Opening[w] \in Int
      BY OpeningIsSolvent DEF TypeOK
    <3>4. QED
      BY <1>7, <2>1, <3>1, <3>2, <3>3
  <2>4. QED
    BY <2>2, <2>3
<1>10. QED
  BY <1>8, <1>9 DEF LedgerExplainsBalance

\* A transfer writes one row for each of its wallets; only a receiver that was
\* locked has a row and no money.
LEMMA TransferExplained ==
    ASSUME TypeOK, HeldRowsAreStable, MissedAreLockable, IsFiniteSet(Written(ledger)),
           LedgerExplainsBalance, NEW s \in Sessions, CommitTransfer(s)
    PROVE  IsFiniteSet(Written(ledger)') /\ LedgerExplainsBalance'
<1>1. PICK c \in Calls : c = call[s]
  BY DEF TypeOK, CommitTransfer
<1>2. pc[s] = "sent" /\ c.ref \in TransferRefs /\ c.wallet # c.to
  BY <1>1 DEF CommitTransfer, HeldRowsAreStable, HeldBy, Sending
<1>3. c.wallet \in Wallets /\ c.to \in Wallets /\ c.amount \in Amounts /\ c.amount \in Nat
  BY CallFields, AmountsArePositive
<1>4. PICK x \in LedgerRow : x = SentRow(c.wallet, c.amount, c.ref)
  BY <1>2, <1>3 DEF SentRow, CallerRow, LedgerRow, Types
<1>5. PICK y \in LedgerRow : y = ReceivedRow(c.to, c.amount, c.ref)
  BY <1>2, <1>3 DEF ReceivedRow, CallerRow, LedgerRow, Types
<1>6. /\ x.wallet = c.wallet /\ Signed(x) = -c.amount
      /\ y.wallet = c.to /\ Signed(y) = c.amount
  BY <1>4, <1>5 DEF SentRow, ReceivedRow, CallerRow, Signed
<1>7. PICK book \in [LedgerRow -> Nat] : book = ledger
  BY DEF TypeOK
<1>8. ledger' = Insert(book, {x, y}) /\ IsFiniteSet(Written(book))
  BY <1>1, <1>4, <1>5, <1>7 DEF CommitTransfer
<1>9. IsFiniteSet(Written(ledger)')
  <2>1. IsFiniteSet({x, y})
    <3>1. {x, y} = {x} \cup {y}
      OBVIOUS
    <3>2. IsFiniteSet({x})
      BY FS_Singleton
    <3>3. IsFiniteSet({x} \cup {y})
      BY <3>2, FS_AddElement
    <3>4. QED
      BY <3>1, <3>3
  <2>2. IsFiniteSet(Written(Insert(book, {x, y})))
    BY <1>8, <2>1, InsertIsFinite
  <2>3. QED
    BY <1>8, <2>2 DEF Written
<1>10. ASSUME NEW w \in Wallets
       PROVE  /\ balance'[w] <= Opening[w] + Reckoning(ledger', w)
              /\ w \notin Lockable => balance'[w] = Opening[w] + Reckoning(ledger', w)
  <2>1. /\ balance[w] <= Opening[w] + Reckoning(book, w)
        /\ w \notin Lockable => balance[w] = Opening[w] + Reckoning(book, w)
        /\ balance[w] \in Int /\ Opening[w] \in Int
    BY <1>7, OpeningIsSolvent DEF LedgerExplainsBalance, TypeOK
  <2>2. /\ w = c.wallet => balance'[w] = balance[w] - c.amount
        /\ w = c.to /\ c.reached => balance'[w] = balance[w] + c.amount
        /\ w # c.wallet /\ ~(w = c.to /\ c.reached) => balance'[w] = balance[w]
    BY <1>1, TransferBalance
  <2>3. CASE w = c.wallet
    <3>1. /\ Reckoning(book, w) \in Int
          /\ Reckoning(Insert(book, {x, y}), w) = Reckoning(book, w) + Signed(x)
      BY <1>2, <1>6, <1>8, <2>3, OwnReckoning
    <3>2. QED
      BY <1>3, <1>6, <1>8, <2>1, <2>2, <2>3, <3>1
  <2>4. CASE w = c.to
    <3>1. /\ Reckoning(book, w) \in Int
          /\ Reckoning(Insert(book, {x, y}), w) = Reckoning(book, w) + Signed(y)
      BY <1>2, <1>6, <1>8, <2>4, OwnReckoning
    <3>2. ~c.reached => w \in Lockable
      BY <1>1, <1>2, <2>4 DEF MissedAreLockable
    <3>3. QED
      BY <1>2, <1>3, <1>6, <1>8, <2>1, <2>2, <2>4, <3>1, <3>2
  <2>5. CASE w # c.wallet /\ w # c.to
    <3>1. Reckoning(Insert(book, {x, y}), w) = Reckoning(book, w)
      BY <1>6, <1>8, <2>5, OthersReckoning
    <3>2. QED
      BY <1>8, <2>1, <2>2, <2>5, <3>1
  <2>6. QED
    BY <2>3, <2>4, <2>5
<1>11. QED
  BY <1>9, <1>10 DEF LedgerExplainsBalance

\* The ledger explains every balance: in every reachable state a wallet that
\* nobody locks holds its opening balance and what its rows come to, and no
\* wallet holds more (credit_wallet, debit_wallet, execute_wallet_transfer).
THEOREM BalancesAreExplained == Spec => []LedgerExplainsBalance
<1> DEFINE LedgerInv == /\ IsFiniteSet(Written(ledger))
                        /\ MissedAreLockable
                        /\ LedgerExplainsBalance
<1>1. Init => LedgerInv
  <2> SUFFICES ASSUME Init PROVE LedgerInv
    OBVIOUS
  <2>1. \A row \in LedgerRow : ledger[row] = 0
    BY DEF Init
  <2>2. Written(ledger) = {}
    BY <2>1 DEF Written
  <2>3. MissedAreLockable
    BY DEF Init, MissedAreLockable
  <2>4. ASSUME NEW w \in Wallets PROVE Reckoning(ledger, w) = 0
    <3>1. Statement(ledger, w) = {}
      BY <2>1 DEF Statement
    <3>2. ASSUME NEW v PROVE SumFunctionOnSet(v, {}) = 0
      BY SumUnfolds, FS_EmptySet
    <3>3. QED
      BY <3>1, <3>2 DEF Reckoning
  <2>5. LedgerExplainsBalance
    <3>1. ASSUME NEW w \in Wallets
          PROVE  /\ balance[w] = Opening[w] /\ Opening[w] \in Nat
                 /\ Opening[w] = Opening[w] + Reckoning(ledger, w)
      <4>1. Opening[w] \in Nat
        BY OpeningIsSolvent
      <4>2. QED
        BY <2>4, <4>1 DEF Init
    <3>2. \A w \in Wallets :
              /\ balance[w] = Opening[w] + Reckoning(ledger, w)
              /\ balance[w] <= Opening[w] + Reckoning(ledger, w)
      <4>1. SUFFICES ASSUME NEW w \in Wallets
                     PROVE  /\ balance[w] = Opening[w] + Reckoning(ledger, w)
                            /\ balance[w] <= Opening[w] + Reckoning(ledger, w)
        OBVIOUS
      <4>2. PICK n \in Nat : n = balance[w]
        BY <3>1
      <4>3. n = Opening[w] + Reckoning(ledger, w) /\ n <= n
        BY <3>1, <4>2
      <4>4. QED
        BY <4>2, <4>3
    <3>3. QED
      BY <3>2 DEF LedgerExplainsBalance
  <2>6. QED
    BY <2>2, <2>3, <2>5, FS_EmptySet
<1>2. TypeOK /\ HeldRowsAreStable /\ LedgerInv /\ [Next]_vars => LedgerInv'
  <2> SUFFICES ASSUME TypeOK, HeldRowsAreStable, LedgerInv, [Next]_vars
               PROVE  LedgerInv'
    OBVIOUS
  <2>1. MissedAreLockable'
    BY MissedStep
  <2>2. ASSUME NEW s \in Sessions, CommitPosting(s)
        PROVE  IsFiniteSet(Written(ledger)') /\ LedgerExplainsBalance'
    BY <2>2, PostingExplained
  <2>3. ASSUME NEW s \in Sessions, CommitTransfer(s)
        PROVE  IsFiniteSet(Written(ledger)') /\ LedgerExplainsBalance'
    BY <2>3, TransferExplained
  <2>4. CASE \A s \in Sessions : ~CommitPosting(s) /\ ~CommitTransfer(s)
    <3>1. balance' = balance /\ ledger' = ledger
      BY <2>4, OnlyCommitsMoveMoney
    <3>2. Written(ledger)' = Written(ledger)
      BY <3>1 DEF Written
    <3>3. \A w \in Wallets : Reckoning(ledger', w) = Reckoning(ledger, w)
      BY <3>1
    <3>4. LedgerExplainsBalance'
      BY <3>1, <3>3 DEF LedgerExplainsBalance
    <3>5. QED
      BY <2>1, <3>2, <3>4
  <2>5. QED
    BY <2>1, <2>2, <2>3, <2>4
<1>3. LedgerInv => LedgerExplainsBalance
  OBVIOUS
<1>4. QED
  <2> HIDE DEF LedgerInv
  <2>1. QED
    BY <1>1, <1>2, <1>3, TypeCorrect, HeldInvariant, PTL DEF Spec
=============================================================================
