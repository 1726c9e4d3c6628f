\* An operator locks and unlocks one of two wallets at any time: the safety of
\* the statements in flight, what the ledger explains, and the refinement of
\* AtomicWallet.
SPECIFICATION Spec
CONSTANTS
    w1 = w1
    w2 = w2
    s1 = s1
    s2 = s2
    OpeningBalance = 1
    Wallets = {w1, w2}
    Sessions = {s1, s2}
    Amounts = {1}
    Refs = {r1}
    TransferRefs = {t1}
    Descs = {d1}
    TransferDesc = transfer
    Opening <- MCOpening
    Lockable = {w1}
    Nobody = Nobody
    NoCall = NoCall
INVARIANTS
    TypeOK
    NoOverdraft
    IdempotentUnlessOverlapped
    LedgerExplainsBalance
PROPERTIES
    LockedWalletIsFrozen
    ImplementsAtomicWallet
