\* One purchase, of a plan with a fallback or without one, two handler threads and
\* the worker, all of which may die, and a wallet that may be locked at any
\* moment.
SPECIFICATION Spec
CONSTANTS
    p1 = p1
    h1 = h1
    h2 = h2
    Purchases = {p1}
    Routes <- MCSafetyRoutes
    Handlers = {h1, h2}
    worker = worker
    Worker = worker
    NoJob = NoJob
    Opening = 1
    Lockable = TRUE
    Mortal = {h1, h2, worker}
    Doubted = {}
    Vague = TRUE
    Bulk = FALSE
SYMMETRY MCSymmetry
INVARIANTS
    TypeOK
    BooksMatchStatus
    RefundedWasCredited
    RefundMeansRejected
PROPERTY
    SuccessIsDelivered
