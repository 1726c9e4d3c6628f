--------------------------- MODULE DataPurchases ---------------------------
(***************************************************************************)
(* The life of a data purchase: POST /data/purchase, the provider webhooks *)
(* that report on it, the reconcile worker that asks Amigo about whatever  *)
(* stays PENDING, and the two admin corrections.                           *)
(*                                                                         *)
(* Each of them loads the transaction row into a session of its own, acts  *)
(* on what it loaded and writes later, without a row lock or a version     *)
(* test.  The wallet is the indivisible one of AtomicWallet; every         *)
(* purchase here costs one unit of the same user's wallet.                 *)
(***************************************************************************)
EXTENDS Integers, DataProviders

CONSTANTS
    Purchases,    \* references of the user's data purchases
    Routes,       \* plans: who sells them first, and who when that one has failed
    Handlers,     \* threads that serve purchases, webhooks and the admin
    Worker,       \* the thread of services/pending_reconcile.py
    NoJob,        \* what an idle thread does
    Opening,      \* purchases the opening balance pays for
    Lockable,     \* whether an operator may lock the wallet
    Mortal,       \* the threads that may die half way
    Doubted,      \* purchases whose sellers count as unclear from the start
    Vague,        \* whether Amigo may answer "failed" for no definitive reason
    Bulk          \* whether the admin reconciles in bulk

ASSUME RoutesAreRoutes ==
    \A r \in Routes : /\ r \in [first : Sellers, second : Sellers \cup {"none"}]
                      /\ r.first # r.second
ASSUME DoubtedArePurchases == Doubted \subseteq Purchases
ASSUME WorkerIsNoHandler == Worker \notin Handlers
ASSUME OpeningIsNat == Opening \in Nat
ASSUME SwitchesAreBoolean == {Lockable, Vague, Bulk} \subseteq BOOLEAN

Sessions == Handlers \cup {Worker}

Status == {"none", "PENDING", "SUCCESS", "FAILED", "REFUNDED"}

\* The refunds of a purchase, by who pays: each writes a wallet_ledger row
\* with a description (or, for the admin, a reference) of its own.
Refunds == {"request", "webhook", "worker", "fail_refund"}
Rows == Refunds \cup {"debit", "reversal"}

Job == [kind : Refunds \cup {"deliver"}, p : Purchases,
        pc : {"debited", "calling", "waiting", "answered", "loaded", "owing", "credited"},
        verdict : {"none", "success", "pending", "failed", "timeout", "reverse"},
        asks : Sellers \cup {"none"}, seen : Status]

ASSUME NoJobIsNoJob == NoJob \notin Job

VARIABLES
    status,    \* transactions.status, "none" before the row exists
    balance,   \* wallets.balance, in units of the price
    locked,    \* wallets.is_locked
    ledger,    \* copies of each wallet_ledger row of a purchase
    route,     \* the providers of the plan bought, as the request read them
    order,     \* what became of a purchase at each seller
    unclear,   \* history: purchases of which a seller spoke unclearly
    refused,   \* history: purchases whose refund by the worker met a locked wallet
    old,       \* purchases pending for longer than the reconcile timeout
    job,       \* what each thread is doing, with the status it loaded
    disturbed  \* history: purchases two threads worked on at once, or one died on

rows == <<status, balance, ledger>>
orders == <<route, order, unclear>>
world == <<locked, orders, old, refused>>
vars == <<status, balance, locked, ledger, route, order, unclear, refused, old, job,
          disturbed>>

Init ==
    /\ status = [p \in Purchases |-> "none"]
    /\ balance = Opening
    /\ locked = FALSE
    /\ ledger = [p \in Purchases |-> [r \in Rows |-> 0]]
    /\ route \in [Purchases -> Routes]
    /\ order = [p \in Purchases |-> [x \in Sellers |-> "none"]]
    /\ unclear = Doubted
    /\ refused = {}
    /\ old = {}
    /\ job = [s \in Sessions |-> NoJob]
    /\ disturbed = {}

-----------------------------------------------------------------------------
WorksOn(s, p) == job[s] # NoJob /\ job[s].p = p

\* Whom a job asks: the request its sellers in turn, the worker always Amigo.
Asks(kind, p) ==
    IF kind = "request" THEN route[p].first
    ELSE IF kind = "worker" THEN "amigo" ELSE "none"

\* An order under the purchase's reference, which each seller takes once.
PlaceAt(p, x) ==
    order' = [order EXCEPT ![p][x] = IF @ = "none" THEN "open" ELSE @]

Hear(p, clear) == unclear' = IF clear THEN unclear ELSE unclear \cup {p}

Delivered(p) == \E x \in Sellers : order[p][x] = "delivered"
Rejected(p, x) == order[p][x] = "rejected"

\* A thread loads a purchase and starts to work on it.
Begin(s, kind, p, pc, verdict) ==
    /\ job[s] = NoJob
    /\ job' = [job EXCEPT ![s] = [kind |-> kind, p |-> p, pc |-> pc, verdict |-> verdict,
                                  asks |-> Asks(kind, p), seen |-> status[p]]]
    /\ disturbed' = IF \E t \in Sessions : WorksOn(t, p)
                    THEN disturbed \cup {p} ELSE disturbed

At(s, pc) == job[s] # NoJob /\ job[s].pc = pc

Goto(s, pc) == job' = [job EXCEPT ![s].pc = pc] /\ UNCHANGED disturbed

End(s) == job' = [job EXCEPT ![s] = NoJob] /\ UNCHANGED disturbed

Post(p, row, amount) ==
    /\ ledger' = [ledger EXCEPT ![p][row] = @ + 1]
    /\ balance' = balance + amount

\* SQLAlchemy writes a status only if it differs from the one loaded.
Write(s, new) ==
    status' = [status EXCEPT ![job[s].p] = IF job[s].seen # new THEN new ELSE @]

\* A job that is going to refund, and one that takes a refund back.
Refunding(s) == job[s].verdict \in {"failed", "timeout"}
Reversing(s) == job[s].verdict = "reverse"

-----------------------------------------------------------------------------
(***************************************************************************)
(* Who starts a job.                                                       *)
(***************************************************************************)

\* _buy_data_impl up to debit_wallet, which commits before there is a
\* transaction.
Debit(s, p) ==
    /\ status[p] = "none" /\ ledger[p]["debit"] = 0
    /\ balance >= 1 /\ ~locked
    /\ Begin(s, "request", p, "debited", "none")
    /\ Post(p, "debit", -1)
    /\ UNCHANGED <<status, world>>

\* Mutant: a webhook for a settled purchase is handled like the first one.
Webhook_NoTerminalTest(s, p) ==
    /\ status[p] # "none"
    /\ \E x \in {"smeplug", "autosync"} :
          \/ order[p][x] = "delivered" /\ Begin(s, "webhook", p, "loaded", "success")
          \/ Rejected(p, x) /\ Begin(s, "webhook", p, "loaded", "failed")
    /\ UNCHANGED <<rows, world>>

\* smeplug_webhook and autosync_webhook, delivered once that seller has decided,
\* any number of times, whoever is asked now.  SUCCESS and REFUNDED are left alone.
Webhook(s, p) ==
    /\ status[p] \in {"PENDING", "FAILED"}
    /\ \E x \in {"smeplug", "autosync"} :
          \/ order[p][x] = "delivered" /\ Begin(s, "webhook", p, "loaded", "success")
          \/ Rejected(p, x) /\ Begin(s, "webhook", p, "loaded", "failed")
    /\ UNCHANGED <<rows, world>>

\* reconcile_pending_data_once takes up a PENDING row and buys it from Amigo
\* again under the same idempotency key.
WorkerLoads(p) ==
    /\ status[p] = "PENDING"
    /\ Begin(Worker, "worker", p, "waiting", "none")
    /\ PlaceAt(p, "amigo")
    /\ UNCHANGED <<rows, locked, route, unclear, old, refused>>

\* _fail_refund_single_reference: only PENDING, 409 otherwise.
AdminFails(s, p) ==
    /\ status[p] = "PENDING"
    /\ Begin(s, "fail_refund", p, "loaded", "failed")
    /\ UNCHANGED <<rows, world>>

\* _reconcile_single_reference: any status; a refund already paid is reversed.
AdminDelivers(s, p) ==
    /\ status[p] # "none"
    /\ Begin(s, "deliver", p, "loaded",
             IF status[p] = "REFUNDED" THEN "reverse" ELSE "success")
    /\ UNCHANGED <<rows, world>>

-----------------------------------------------------------------------------
(***************************************************************************)
(* What a job does, one database commit or provider answer at a time.      *)
(***************************************************************************)

\* The PENDING row is inserted and committed, and the session closed.
Record(s) ==
    /\ At(s, "debited")
    /\ status' = [status EXCEPT ![job[s].p] = "PENDING"]
    /\ Goto(s, "calling")
    /\ UNCHANGED <<balance, ledger, world>>

\* The order reaches the seller.
Place(s) ==
    /\ At(s, "calling")
    /\ PlaceAt(job[s].p, job[s].asks)
    /\ Goto(s, "waiting")
    /\ UNCHANGED <<rows, locked, route, unclear, old, refused>>

\* Whether there is a fallback_provider left to ask.
HasFallback(s) ==
    LET r == route[job[s].p] IN job[s].asks = r.first /\ r.second # "none"

\* _execute_provider returns: the answer to the order, as it is read, or what an
\* exception says.
Answer(s) ==
    LET p == job[s].p IN
    /\ At(s, "waiting") /\ job[s].kind = "request"
    /\ \E a \in Heard[job[s].asks][order[p][job[s].asks]] :
          /\ a.verdict = "failed" => ~HasFallback(s)
          /\ Hear(p, a.clear)
          /\ job' = [job EXCEPT ![s].pc = "answered", ![s].verdict = a.verdict]
    /\ UNCHANGED <<rows, locked, route, order, old, refused, disturbed>>

\* The first seller has failed: the fallback is asked under the same reference.
FallBack(s) ==
    LET p == job[s].p IN
    /\ At(s, "waiting") /\ job[s].kind = "request" /\ HasFallback(s)
    /\ \E a \in Heard[job[s].asks][order[p][job[s].asks]] :
          a.verdict = "failed" /\ Hear(p, a.clear)
    /\ job' = [job EXCEPT ![s].pc = "calling", ![s].asks = route[p].second]
    /\ UNCHANGED <<rows, locked, route, order, old, refused, disturbed>>

\* Mutant: no timeout; an undecided order is left for the next round.
AmigoAnswers_NoTimeout ==
    LET p == job[Worker].p
        To(v) == job' = [job EXCEPT ![Worker].pc = "loaded", ![Worker].verdict = v]
    IN  /\ At(Worker, "waiting")
        /\ \E a \in Rechecked[order[p]["amigo"]] :
              /\ Hear(p, a.clear)
              /\ \/ a.verdict \in {"success", "failed"} /\ To(a.verdict)
                    /\ UNCHANGED disturbed
                 \/ a.verdict = "undecided" /\ End(Worker)
        /\ UNCHANGED <<rows, locked, route, order, old, refused>>

\* Amigo's answer to the worker: settle, refund, refund after the timeout, or
\* leave it PENDING for the next round.
AmigoAnswers ==
    LET p == job[Worker].p
        To(v) == job' = [job EXCEPT ![Worker].pc = "loaded", ![Worker].verdict = v]
    IN  /\ At(Worker, "waiting")
        /\ \E a \in Rechecked[order[p]["amigo"]] :
              /\ Hear(p, a.clear)
              /\ \/ /\ a.verdict \in {"success", "failed"}
                    /\ To(a.verdict) /\ UNCHANGED disturbed
                 \/ /\ a.verdict = "undecided" /\ p \in old
                    /\ To("timeout") /\ UNCHANGED disturbed
                 \/ a.verdict = "undecided" /\ p \notin old /\ End(Worker)
                 \/ a.verdict = "stays" /\ Vague /\ End(Worker)
        /\ UNCHANGED <<rows, locked, route, order, old, refused>>

\* db2: the request loads its transaction again, and does not look at its status.
Reload(s) ==
    /\ At(s, "answered")
    /\ job' = [job EXCEPT ![s].pc = "loaded", ![s].seen = status[job[s].p]]
    /\ UNCHANGED <<rows, world, disturbed>>

\* Mutant: the provider's word for the status goes into the row as it is.
Settle_RawStatus(s) ==
    /\ At(s, "loaded") /\ job[s].verdict \in {"success", "pending"}
    /\ Write(s, job[s].verdict)
    /\ End(s)
    /\ UNCHANGED <<balance, ledger, world>>

\* The commit of a status that moves no money.
Settle(s) ==
    /\ At(s, "loaded") /\ job[s].verdict \in {"success", "pending"}
    /\ Write(s, IF job[s].verdict = "success" THEN "SUCCESS" ELSE "PENDING")
    /\ End(s)
    /\ UNCHANGED <<balance, ledger, world>>

\* credit_wallet looks for the row this refund writes; a copy means it has been
\* paid, and there is nothing to commit before the last step.
LookUpRefund(s) ==
    /\ At(s, "loaded") /\ Refunding(s) /\ ~locked
    /\ Goto(s, IF ledger[job[s].p][job[s].kind] = 0 THEN "owing" ELSE "credited")
    /\ UNCHANGED <<rows, world>>

\* The commit inside credit_wallet also writes the FAILED that was assigned
\* before; the admin's refund commits once, with its last status.
CommitRefund(s) ==
    LET admin == job[s].kind = "fail_refund" IN
    /\ At(s, "owing") /\ Refunding(s) /\ ~locked
    /\ Post(job[s].p, job[s].kind, 1)
    /\ Write(s, IF admin THEN "REFUNDED" ELSE "FAILED")
    /\ IF admin THEN End(s) ELSE Goto(s, "credited")
    /\ UNCHANGED world

\* The commit of REFUNDED: its row is expired, so it is written in any case.
MarkRefunded(s) ==
    /\ At(s, "credited")
    /\ status' = [status EXCEPT ![job[s].p] = "REFUNDED"]
    /\ End(s)
    /\ UNCHANGED <<balance, ledger, world>>

\* Mutant: the 423 is swallowed and the purchase marked as if refunded.
RefundRefused_Swallowed(s) ==
    /\ \/ At(s, "loaded")
       \/ At(s, "owing")
    /\ Refunding(s) /\ locked
    /\ Write(s, "REFUNDED")
    /\ End(s)
    /\ UNCHANGED <<balance, ledger, world>>

\* The wallet is locked: the request fails and is rolled back, except that the
\* worker's "except Exception" commits the FAILED it had assigned.
RefundRefused(s) ==
    /\ \/ At(s, "loaded")
       \/ At(s, "owing")
    /\ Refunding(s) /\ locked
    /\ \/ UNCHANGED <<status, refused>>
       \/ s = Worker /\ Write(s, "FAILED") /\ refused' = refused \cup {job[s].p}
    /\ End(s)
    /\ UNCHANGED <<balance, ledger, locked, orders, old>>

\* The admin looks for REVERSAL_<reference>, then at the balance.
LookUpReversal(s) ==
    /\ At(s, "loaded") /\ Reversing(s)
    /\ \/ /\ ledger[job[s].p]["reversal"] > 0
          /\ job' = [job EXCEPT ![s].verdict = "success"]
       \/ /\ ledger[job[s].p]["reversal"] = 0 /\ balance >= 1 /\ ~locked
          /\ job' = [job EXCEPT ![s].pc = "owing"]
    /\ UNCHANGED <<rows, world, disturbed>>

\* debit_wallet commits SUCCESS together with the debit.
CommitReversal(s) ==
    /\ At(s, "owing") /\ Reversing(s)
    /\ balance >= 1 /\ ~locked
    /\ Post(job[s].p, "reversal", -1)
    /\ Write(s, "SUCCESS")
    /\ End(s)
    /\ UNCHANGED world

\* 409, 400 or 423, and a rollback; but in bulk the SUCCESS already assigned
\* stays in the session and goes out with the commit of a later reference.
ReversalRefused(s) ==
    /\ \/ At(s, "loaded") /\ ledger[job[s].p]["reversal"] = 0
       \/ At(s, "owing")
    /\ Reversing(s) /\ (balance < 1 \/ locked)
    /\ \/ UNCHANGED status
       \/ Bulk /\ Write(s, "SUCCESS")
    /\ End(s)
    /\ UNCHANGED <<balance, ledger, world>>

Advance(s) ==
    \/ Record(s) \/ Place(s) \/ Answer(s) \/ FallBack(s) \/ Reload(s) \/ Settle(s)
    \/ LookUpRefund(s) \/ CommitRefund(s) \/ MarkRefunded(s) \/ RefundRefused(s)
    \/ LookUpReversal(s) \/ CommitReversal(s) \/ ReversalRefused(s)
    \/ s = Worker /\ AmigoAnswers

-----------------------------------------------------------------------------
\* A provider makes up its mind about an order.
ProviderDecides(p, x) ==
    /\ order[p][x] = "open"
    /\ \E o \in {"delivered", "rejected"} : order' = [order EXCEPT ![p][x] = o]
    /\ UNCHANGED <<rows, locked, route, unclear, old, refused, job, disturbed>>

\* pending_reconcile_auto_success_seconds go by.
Age(p) ==
    /\ status[p] # "none" /\ p \notin old
    /\ old' = old \cup {p}
    /\ UNCHANGED <<rows, locked, orders, refused, job, disturbed>>

\* A thread dies, or its process: what it had not committed is gone.
Crash(s) ==
    /\ s \in Mortal /\ job[s] # NoJob
    /\ job' = [job EXCEPT ![s] = NoJob]
    /\ disturbed' = disturbed \cup {job[s].p}
    /\ UNCHANGED <<rows, world>>

OperatorSetsLock ==
    /\ Lockable
    /\ locked' = ~locked
    /\ UNCHANGED <<rows, orders, old, refused, job, disturbed>>

Next ==
    \/ \E s \in Handlers, p \in Purchases :
          \/ Debit(s, p)
          \/ Webhook(s, p)
          \/ AdminFails(s, p)
          \/ AdminDelivers(s, p)
    \/ \E p \in Purchases : WorkerLoads(p)
    \/ \E s \in Sessions : Advance(s) \/ Crash(s)
    \/ \E p \in Purchases, x \in Sellers : ProviderDecides(p, x)
    \/ \E p \in Purchases : Age(p)
    \/ OperatorSetsLock

Spec == Init /\ [][Next]_vars

\* Threads that run go on running (provider calls have timeouts), time passes,
\* and the worker's rounds take the PENDING rows one after the other: each is
\* reached again and again, hence SF.  Clients, providers, the admin and the
\* operator owe nothing.
Fairness ==
    /\ \A s \in Sessions : WF_vars(Advance(s))
    /\ \A p \in Purchases : WF_vars(Age(p)) /\ SF_vars(WorkerLoads(p))

FairSpec == Spec /\ Fairness
-----------------------------------------------------------------------------
(***************************************************************************)
(* Properties                                                              *)
(***************************************************************************)

\* Type invariant.
TypeOK ==
    /\ status \in [Purchases -> Status]
    /\ balance \in Int
    /\ locked \in BOOLEAN
    /\ ledger \in [Purchases -> [Rows -> Nat]]
    /\ route \in [Purchases -> Routes]
    /\ order \in [Purchases -> [Sellers -> Fate]]
    /\ unclear \in SUBSET Purchases /\ refused \in SUBSET Purchases
    /\ old \in SUBSET Purchases
    /\ job \in [Sessions -> Job \cup {NoJob}]
    /\ disturbed \in SUBSET Purchases

\* What the user has paid for a purchase after refunds and reversals.
Paid(p) ==
    LET row == ledger[p] IN
    row["debit"] + row["reversal"]
      - (row["request"] + row["webhook"] + row["worker"] + row["fail_refund"])

Refunded(p) ==
    ledger[p]["request"] + ledger[p]["webhook"] + ledger[p]["worker"]
      + ledger[p]["fail_refund"]

\* As long as its handlers came one after the other and none died, the ledger
\* of a purchase agrees with its status: paid once while PENDING or SUCCESS, paid
\* back when REFUNDED, whichever of request, webhooks, worker and admin settled
\* it and however often they were repeated.  A purchase left FAILED, which is
\* paid and got nothing, is one whose refund by the worker met a locked wallet.
BooksMatchStatus ==
    \A p \in Purchases :
        p \notin disturbed /\ (\A s \in Sessions : ~WorksOn(s, p)) =>
            /\ Paid(p) = (IF status[p] \in {"none", "REFUNDED"} THEN 0 ELSE 1)
            /\ status[p] = "FAILED" => p \in refused

\* Under every interleaving and crash, a purchase marked REFUNDED has a refund
\* on the ledger: credit_wallet commits before, or with, the status.
RefundedWasCredited ==
    \A p \in Purchases : status[p] = "REFUNDED" => Refunded(p) >= 1

\* What a refund by the request, by a webhook and by the worker stands on.
Grounds(kind, p) ==
    /\ kind = "request" => \A x \in {route[p].first, route[p].second} \ {"none"} : Rejected(p, x)
    /\ kind = "webhook" => \E x \in {"smeplug", "autosync"} : Rejected(p, x)
    /\ kind = "worker" => p \in old \/ Rejected(p, "amigo")

\* Under every interleaving and crash, and with or without a fallback: as long as
\* the sellers spoke clearly, the request refunds only what every seller it asked
\* has rejected, a webhook what its seller has, and the worker what Amigo has or
\* what is older than the timeout.
RefundMeansRejected ==
    \A p \in Purchases \ unclear, r \in Refunds : ledger[p][r] > 0 => Grounds(r, p)

\* As long as the sellers spoke clearly, nothing but the admin's word turns a
\* purchase into a SUCCESS that none of them has delivered, however the answers
\* are read and however late or often answers and webhooks arrive.
BecomesSuccess(p) == status[p] # "SUCCESS" /\ status'[p] = "SUCCESS"
SuccessOnlyIfDelivered ==
    \A p \in Purchases \ unclear : BecomesSuccess(p) =>
        Delivered(p) \/ \E s \in Sessions : WorksOn(s, p) /\ job[s].kind = "deliver"
SuccessIsDelivered == [][SuccessOnlyIfDelivered]_vars

(***************************************************************************)
(* What makes these properties inductive.                                  *)
(***************************************************************************)
Holds(p, debits, refunds, reversals) ==
    /\ ledger[p]["debit"] = debits
    /\ Refunded(p) = refunds
    /\ ledger[p]["reversal"] = reversals

\* The rows of a purchase nobody works on.
InOrder(p) ==
    \/ status[p] = "none" /\ Holds(p, 0, 0, 0)
    \/ status[p] = "PENDING" /\ Holds(p, 1, 0, 0)
    \/ status[p] = "FAILED" /\ Holds(p, 1, 0, 0) /\ p \in refused
    \/ status[p] = "REFUNDED" /\ Holds(p, 1, 1, 0)
    \/ status[p] = "SUCCESS" /\ (Holds(p, 1, 0, 0) \/ Holds(p, 1, 1, 1))

\* The status a job may find when it acts on its verdict.
Fits(verdict, st) ==
    /\ verdict \in {"failed", "timeout"} => st \in {"PENDING", "FAILED"}
    /\ verdict = "success" => st \in {"PENDING", "FAILED", "SUCCESS"}
    /\ verdict = "pending" => st = "PENDING"
    /\ verdict = "reverse" => st = "REFUNDED"

\* The rows of a purchase that only s works on.
JobInOrder(s) ==
    LET j == job[s] IN
    /\ j.pc = "debited" => status[j.p] = "none" /\ Holds(j.p, 1, 0, 0)
    /\ j.pc = "credited" => Holds(j.p, 1, 1, 0)
    /\ j.pc \notin {"debited", "credited"} => InOrder(j.p)
    /\ j.pc \in {"calling", "waiting", "answered"} => status[j.p] = "PENDING"
    /\ j.pc = "waiting" /\ j.kind = "worker" => j.seen = "PENDING"
    /\ j.pc \in {"loaded", "owing"} => j.seen = status[j.p] /\ Fits(j.verdict, j.seen)

Undisturbed(p) ==
    p \notin disturbed =>
        /\ \A s, t \in Sessions : WorksOn(s, p) /\ WorksOn(t, p) => s = t
        /\ \A s \in Sessions : WorksOn(s, p) => JobInOrder(s)
        /\ (\A s \in Sessions : ~WorksOn(s, p)) => InOrder(p)

\* Who refunds, reverses and succeeds.
Sound(s) ==
    LET j == job[s] IN
    /\ j.kind = "worker" <=> s = Worker
    /\ j.verdict = "reverse" => j.kind = "deliver"
    /\ j.verdict \in {"failed", "timeout"} \/ j.pc = "credited" => j.kind \in Refunds
    /\ j.verdict = "success" /\ j.kind # "deliver" /\ j.p \notin unclear => Delivered(j.p)
    /\ Refunding(s) /\ j.p \notin unclear => Grounds(j.kind, j.p)
    /\ j.pc = "credited" => Refunding(s)
    /\ j.pc \in {"debited", "calling", "answered"} => j.kind = "request"
    /\ j.pc = "waiting" => j.kind \in {"request", "worker"} /\ order[j.p][j.asks] # "none"
    /\ j.kind = "request" => j.asks \in {route[j.p].first, route[j.p].second} \ {"none"}
    /\ j.kind = "request" /\ j.asks = route[j.p].second /\ j.p \notin unclear =>
          Rejected(j.p, route[j.p].first)
    /\ j.kind = "worker" => j.asks = "amigo"
    /\ j.pc = "credited" => Refunded(j.p) >= 1

PurchaseInv ==
    /\ TypeOK
    /\ RefundedWasCredited
    /\ RefundMeansRejected
    /\ \A s \in Sessions : job[s] # NoJob => Sound(s)
    /\ \A p \in Purchases : Undisturbed(p)

\* No purchase stays PENDING for ever: what a dead request or an undecided
\* provider leaves behind, the worker settles or refunds.
PendingIsSettled ==
    \A p \in Purchases : status[p] = "PENDING" ~> status[p] # "PENDING"
=============================================================================
