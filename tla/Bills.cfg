\* One key under two sessions, sent again with the same or another amount, by
\* every kind of purchase and provider, by requests that die.
SPECIFICATION FairSpec
CONSTANTS
    k1 = k1
    s1 = s1
    s2 = s2
    Keys = {k1}
    Kinds = {"airtime", "electricity", "exam", "api"}
    InUse = {"vtpass", "clubkonnect"}
    Sessions = {s1, s2}
    NoJob = NoJob
    Amounts = {1, 2}
    Opening = 3
    Queries = 1
    MaxDeaths = 1
INVARIANTS
    TypeOK
    OneOrderPerKey
    RetryPaysOnce
    BooksMatchStatus
    RefundMeansRejected
PROPERTIES
    SuccessIsDelivered
    DebitBecomesBill
\* A bill that is settled and asked for no more leaves nothing to do.
CHECK_DEADLOCK FALSE
