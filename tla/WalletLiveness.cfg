\* Two transfers, which may wait for each other, and a credit and a debit
\* reference on each wallet, which nobody locks: every request ends.
SPECIFICATION FairSpec
CONSTANTS
    w1 = w1
    w2 = w2
    s1 = s1
    s2 = s2
    OpeningBalance = 1
    Wallets = {w1, w2}
    Sessions = {s1, s2}
    Amounts = {1}
    Refs = {r1}
    TransferRefs = {t1, t2}
    Descs = {d1}
    TransferDesc = transfer
    Opening <- MCOpening
    Lockable = {}
    Nobody = Nobody
    NoCall = NoCall
PROPERTY
    CallsReturn
\* Once every reference is used no client has anything left to ask.
CHECK_DEADLOCK FALSE
