\* One purchase; a handler may die, the admin works in bulk: it is settled all the same.
SPECIFICATION FairSpec
CONSTANTS
    p1 = p1
    h1 = h1
    h2 = h2
    Purchases = {p1}
    Routes <- MCLivenessRoutes
    Handlers = {h1, h2}
    worker = worker
    Worker = worker
    NoJob = NoJob
    Opening = 1
    Lockable = FALSE
    Mortal = {h1}
    Doubted = {p1}
    Vague = FALSE
    Bulk = TRUE
PROPERTY
    PendingIsSettled
\* When the money and the purchases are used up, nobody has anything left to do.
CHECK_DEADLOCK FALSE
